---- MODULE Spec2Model ----
(***************************************************************************)
(* Terrain engine of worldweaver/src-tauri/src/terrain: the terrain        *)
(* session (TerrainData behind the tokio Mutex), the XOR undo stack, the   *)
(* hydrology passes and the river extractor.                               *)
(*                                                                         *)
(* Heights.  A height is an f32.  The undo stack works on the 32-bit word  *)
(* f32::to_bits returns; the model holds that word as its two's-complement *)
(* integer, so XOR, byte packing and equality are exact.  Arithmetic on    *)
(* heights is done in fixed point: the integer n stands for n * 0.0001, so *)
(* epsilon of fill_depressions is 1 and the height 1.0 is 10000.           *)
(***************************************************************************)
EXTENDS Integers, Sequences, FiniteSets, TLC

VARIABLES
    config,          \* TerrainData.config
    chunks,          \* TerrainData.chunks : coord -> HeightmapChunk
    dirty_chunks,    \* TerrainData.dirty_chunks
    river_network,   \* TerrainData.river_network.segments
    water_sources,   \* TerrainData.water_sources
    entries,         \* UndoStack.entries
    current_group,   \* UndoStack.current_group
    hist,            \* history: the recorded, not yet undone edits (coord, heights before)
    last,            \* history: the last operation and what it saw
    chunks0,         \* history: the chunk map at the start
    width,           \* hydrology: the width of the flattened buffer
    height,          \* hydrology: the height of the flattened buffer
    heights,         \* hydrology: the flattened height buffer, row-major
    open,            \* fill_depressions: the BinaryHeap of cells, as its backing vector
    closed,          \* fill_depressions: the closed flags, as the set of closed indices
    flow_direction,  \* the result of calculate_flow_direction
    accumulation,    \* the result of calculate_flow_accumulation
    heights_in,      \* history: the buffer as it was given
    phase,           \* where the hydrology pipeline stands
    calls,           \* the generate_terrain invocations: position and locals of each
    origin,          \* history: the invocation config, chunks and rivers were written by
    heights_mutex,   \* erode_terrain_parallel: the droplet that holds heights_mutex, or 0
    droplets,        \* erosion: position and locals of each droplet
    terrain_db       \* the tables of terrain.db, the file TerrainDatabase opens

terrainVars == <<config, chunks, dirty_chunks, river_network, water_sources>>
undoVars == <<entries, current_group>>
histVars == <<hist, last, chunks0>>
hydroVars == <<width, height, heights, open, closed, flow_direction, accumulation,
               heights_in, phase>>
callVars == <<calls, origin>>
erosionVars == <<heights_mutex, droplets>>
vars == <<terrainVars, undoVars, histVars, hydroVars, callVars, erosionVars, terrain_db>>

(***************************************************************************)
(* Bounds of the model.  chunk_size and max_entries are the program's own  *)
(* parameters (128 and 1000 in the source), scaled down so that chunk      *)
(* borders and eviction are reached in a finite state space.               *)
(***************************************************************************)
chunk_size == 1
max_entries == 2
MaxRecords == 3
MaxGroup == 1

vertex_count == chunk_size + 1

Min(a, b) == IF a < b THEN a ELSE b
Max(a, b) == IF a > b THEN a ELSE b

(***************************************************************************)
(* 32-bit words and bytes                                                  *)
(***************************************************************************)
RECURSIVE BitXor(_, _)
BitXor(a, b) ==
    IF a = 0 THEN b
    ELSE IF b = 0 THEN a
    ELSE (((a % 2) + (b % 2)) % 2) + 2 * BitXor(a \div 2, b \div 2)

\* u32::to_le_bytes of a word held as its two's-complement integer
to_le_bytes(v) ==
    <<v % 256, (v \div 256) % 256, (v \div 65536) % 256, (v \div 16777216) % 256>>

\* the two's-complement integer of the word whose most significant byte is b
TopByte(b) == IF b >= 128 THEN b - 256 ELSE b

u32_from_be_bytes(c) == c[4] + 256 * c[3] + 65536 * c[2] + 16777216 * TopByte(c[1])

\* u32::from_le_bytes
u32_from_le_bytes(c) == c[1] + 256 * c[2] + 65536 * c[3] + 16777216 * TopByte(c[4])

\* a.to_bits() ^ b.to_bits()
WordXor(a, b) ==
    LET x == to_le_bytes(a)
        y == to_le_bytes(b)
    IN  u32_from_le_bytes([k \in 1..4 |-> BitXor(x[k], y[k])])

RECURSIVE FlatBytes(_)
FlatBytes(words) ==
    IF words = <<>> THEN <<>> ELSE to_le_bytes(Head(words)) \o FlatBytes(Tail(words))

\* slice::chunks_exact(4): whole groups of four bytes, a short remainder is dropped
chunks_exact4(bytes) ==
    [k \in 1..(Len(bytes) \div 4) |-> SubSeq(bytes, 4 * (k - 1) + 1, 4 * k)]

(***************************************************************************)
(* zstd, as the stack uses it: encode_all frames the bytes, decode_all     *)
(* gives the framed bytes back and fails on anything that is not a frame.  *)
(***************************************************************************)
ZstdMagic == <<40, 181, 47, 253>>

zstd_encode_all(bytes) == [ok |-> TRUE, data |-> ZstdMagic \o bytes]

zstd_decode_all(frame) ==
    IF Len(frame) >= 4 /\ SubSeq(frame, 1, 4) = ZstdMagic
    THEN [ok |-> TRUE, data |-> SubSeq(frame, 5, Len(frame))]
    ELSE [ok |-> FALSE, data |-> <<>>]

(***************************************************************************)
(* HeightmapChunk and UndoStack                                            *)
(***************************************************************************)
NoFlow == [some |-> FALSE, data |-> <<>>]

\* HeightmapChunk::from_heights
from_heights(coord, hs) ==
    [coord |-> coord, heights |-> hs, lod |-> 0, flow_accumulation |-> NoFlow,
     biome_ids |-> NoFlow]

\* the XOR delta of record: the bytes of (a.to_bits() ^ b.to_bits()) over the zip
XorDelta(after, before) ==
    FlatBytes([i \in 1..Min(Len(after), Len(before)) |-> WordXor(after[i], before[i])])

\* a limit that keeps the oldest entries
KeepOldest(pushed) == SubSeq(pushed, 1, Min(Len(pushed), max_entries))

\* record, "Limit size": pop_front while there are more than max_entries
LimitSize(pushed) ==
    IF Len(pushed) > max_entries
    THEN SubSeq(pushed, Len(pushed) - max_entries + 1, Len(pushed))
    ELSE pushed

\* UndoStack::record, as the new value of entries
RecordEntries(es, group, chunk, before) ==
    IF Len(chunk.heights) # Len(before) THEN es
    ELSE LET compressed == zstd_encode_all(XorDelta(chunk.heights, before)) IN
         IF ~compressed.ok THEN es
         ELSE LimitSize(Append(es, [chunk_coord |-> chunk.coord,
                                    delta |-> compressed.data,
                                    affected_rect |-> <<0, 0, 0, 0>>,
                                    group_id |-> group]))

\* the loop of apply_delta over one chunk's heights
ApplyXor(hs, xor_values) ==
    [i \in 1..Len(hs) |->
        IF i <= Len(xor_values) THEN WordXor(hs[i], xor_values[i]) ELSE hs[i]]

\* an apply_delta that marks the chunk of the entry dirty whatever it finds
ApplyDeltaMarked(chs, dirty, entry) ==
    IF entry.chunk_coord \notin DOMAIN chs
    THEN [chunks |-> chs, dirty |-> dirty \cup {entry.chunk_coord}]
    ELSE LET groups == chunks_exact4(zstd_decode_all(entry.delta).data)
             xor_values == [k \in 1..Len(groups) |-> u32_from_le_bytes(groups[k])]
             c == entry.chunk_coord
         IN  [chunks |-> [chs EXCEPT ![c].heights = ApplyXor(@, xor_values)],
              dirty |-> dirty \cup {c}]

\* UndoStack::apply_delta, as the new chunk map and dirty set
ApplyDelta(chs, dirty, entry) ==
    IF entry.chunk_coord \notin DOMAIN chs THEN [chunks |-> chs, dirty |-> dirty]
    ELSE LET dec == zstd_decode_all(entry.delta) IN
         IF ~dec.ok THEN [chunks |-> chs, dirty |-> dirty]
         ELSE LET groups == chunks_exact4(dec.data)
                  xor_values == [k \in 1..Len(groups) |-> u32_from_le_bytes(groups[k])]
                  c == entry.chunk_coord
              IN  [chunks |-> [chs EXCEPT ![c].heights = ApplyXor(@, xor_values)],
                   dirty |-> dirty \cup {c}]

(***************************************************************************)
(* The undo stack driven as its contract describes: an edit of one chunk,  *)
(* then record(chunk, heights before the edit); begin_group; undo.         *)
(***************************************************************************)
HarnessCoords == {<<0, 0>>, <<1, 0>>}

\* bit patterns of the first heights: 0.2 and -0.0
BitPatterns == {1045220557, (-2147483647) - 1}

\* bit patterns the edits write: 0.2 and the NaN
EditPatterns == {1045220557, -1}

NoOp == [op |-> "none", ok |-> TRUE, coord |-> <<0, 0>>, snap |-> <<>>, n |-> 0, group |-> 0,
         request |-> <<>>, returned |-> 0]

\* last.n counts the record calls made so far

DefaultConfig == [world_width |-> 2048, world_height |-> 2048, seed |-> 12345]

\* the callers of generate_terrain: the two invocations that may overlap
Clients == {"a", "b"}

NoCall == [pc |-> "idle", request |-> <<>>, config |-> DefaultConfig, chunks |-> <<>>,
           rivers |-> <<>>]

\* no invocation of generate_terrain has started
CallsIdle ==
    /\ calls = [p \in Clients |-> NoCall]
    /\ origin = [config |-> "default", chunks |-> "default", rivers |-> "default"]

\* no erosion running
ErosionIdle == heights_mutex = 0 /\ droplets = <<>>

\* terrain.db as SCHEMA creates it: the three tables, no row
EmptyDb == [terrain_config |-> <<>>, terrain_chunks |-> <<>>, river_segments |-> <<>>]

\* the hydrology pipeline at rest
HydroIdle ==
    /\ width = 0 /\ height = 0 /\ heights = <<>> /\ heights_in = <<>>
    /\ open = <<>> /\ closed = {} /\ flow_direction = <<>> /\ accumulation = <<>>
    /\ phase = "idle"

InitUndo ==
    /\ HydroIdle
    /\ CallsIdle
    /\ ErosionIdle
    /\ terrain_db = EmptyDb
    /\ config = DefaultConfig
    /\ \E p \in BitPatterns :
         chunks = [c \in HarnessCoords |->
                     from_heights(c, [i \in 1..(vertex_count * vertex_count) |-> p])]
    /\ chunks0 = chunks
    /\ dirty_chunks = {}
    /\ river_network = <<>>
    /\ water_sources = <<>>
    /\ entries = <<>>
    /\ current_group = 0
    /\ hist = <<>>
    /\ last = NoOp

\* UndoStack::begin_group
BeginGroup ==
    /\ current_group < MaxGroup
    /\ current_group' = current_group + 1
    /\ last' = [NoOp EXCEPT !.op = "begin_group", !.group = current_group + 1, !.n = last.n]
    /\ UNCHANGED <<terrain_db, erosionVars, callVars, terrainVars, entries, hist, chunks0, hydroVars>>

\* an edit of sample i of chunk c, followed by record(chunk, before)
EditRecord(c, i, v) ==
    /\ last.n < MaxRecords
    /\ c \in DOMAIN chunks
    /\ i \in 1..Len(chunks[c].heights)
    /\ LET before == chunks[c].heights
           edited == [chunks[c] EXCEPT !.heights[i] = v]
       IN  /\ chunks' = [chunks EXCEPT ![c] = edited]
           /\ entries' = RecordEntries(entries, current_group, edited, before)
           /\ hist' = Append(hist, [coord |-> c, before |-> before])
           /\ last' = [op |-> "record", ok |-> TRUE, coord |-> c, snap |-> before,
                       n |-> last.n + 1, group |-> current_group, request |-> <<>>,
                       returned |-> 0]
    /\ UNCHANGED <<terrain_db, erosionVars, callVars, config, dirty_chunks, river_network, water_sources,
                   current_group, chunks0, hydroVars>>

\* UndoStack::undo
Undo ==
    /\ IF entries # <<>>
       THEN LET entry == entries[Len(entries)]
                r == ApplyDelta(chunks, dirty_chunks, entry)
            IN  /\ entries' = SubSeq(entries, 1, Len(entries) - 1)
                /\ chunks' = r.chunks
                /\ dirty_chunks' = r.dirty
                /\ hist' = SubSeq(hist, 1, Len(hist) - 1)
                /\ last' = [op |-> "undo", ok |-> TRUE, coord |-> entry.chunk_coord,
                            snap |-> hist[Len(hist)].before,
                            n |-> last.n, group |-> entry.group_id, request |-> <<>>,
                            returned |-> 0]
       ELSE /\ last' = [NoOp EXCEPT !.op = "undo", !.ok = FALSE, !.n = last.n]
            /\ UNCHANGED <<entries, chunks, dirty_chunks, hist>>
    /\ UNCHANGED <<terrain_db, erosionVars, callVars, config, river_network, water_sources, current_group,
                   chunks0, hydroVars>>

NextUndo ==
    \/ BeginGroup
    \/ \E c \in HarnessCoords, i \in {1, vertex_count * vertex_count}, v \in EditPatterns :
         EditRecord(c, i, v)
    \/ Undo

SpecUndo == InitUndo /\ [][NextUndo]_vars

\* no recorded entry has been evicted: the stack holds every edit of the history
NothingEvicted == Len(hist) = Len(entries)

(***************************************************************************)
(* C1: undo is an exact LIFO inverse of recorded edits.  While no more     *)
(* edits are outstanding than the stack holds, each undo leaves its chunk  *)
(* bit-for-bit at the heights it had before the newest outstanding edit,   *)
(* and once every edit is undone every chunk has its first heights.        *)
(***************************************************************************)
C1_UndoRestoresExactly ==
    /\ (last.op = "undo" /\ last.ok /\ NothingEvicted)
          => chunks[last.coord].heights = last.snap
    /\ (hist = <<>> /\ entries = <<>>)
          => \A c \in DOMAIN chunks : chunks[c].heights = chunks0[c].heights

\* two edits (one writing a NaN pattern) have been undone in turn
C1_Witness ==
    /\ last.op = "undo" /\ last.ok
    /\ hist = <<>> /\ entries = <<>>
    /\ dirty_chunks = HarnessCoords
    /\ \E c \in DOMAIN chunks : chunks[c].heights[1] = 1045220557

(***************************************************************************)
(* C4: a gesture is undone atomically.  After an undo of an entry of a     *)
(* group opened by begin_group, no entry of that group is left on the      *)
(* stack.                                                                  *)
(***************************************************************************)
C4_GroupUndoneAtomically ==
    (last.op = "undo" /\ last.ok /\ last.group >= 1)
        => \A k \in 1..Len(entries) : entries[k].group_id # last.group

(***************************************************************************)
(* Hydrology (hydrology.rs) over a row-major buffer of w * h heights.      *)
(* Cell (x, z) has index z * w + x; a buffer is a sequence, so its height  *)
(* is buf[z * w + x + 1].                                                  *)
(***************************************************************************)
\* epsilon of fill_depressions, 0.0001, in fixed point
epsilon == 1

\* the value 255 of a cell without flow
NoDir == 255

\* D8 direction offsets: E, SE, S, SW, W, NW, N, NE
dx == <<1, 1, 0, -1, -1, -1, 0, 1>>
dz == <<0, 1, 1, 1, 0, -1, -1, -1>>

InGrid(nx, nz, w, h) == nx >= 0 /\ nx < w /\ nz >= 0 /\ nz < h

HeightAt(buf, w, x, z) == buf[z * w + x + 1]

get_neighbors_4(x, z, w, h) ==
    LET all == [i \in 1..4 |-> <<x + dx[2 * i - 1], z + dz[2 * i - 1]>>]
    IN  SelectSeq(all, LAMBDA n : InGrid(n[1], n[2], w, h))

\* get_neighbors_8
get_neighbors_8(x, z, w, h) ==
    LET all == [i \in 1..8 |-> <<x + dx[i], z + dz[i]>>]
    IN  SelectSeq(all, LAMBDA n : InGrid(n[1], n[2], w, h))

(***************************************************************************)
(* The min-heap: std's BinaryHeap over Cell, whose Ord is the reverse of   *)
(* the order of the heights.  a <= b in that Ord when a is at least as     *)
(* high as b.  The heap is its backing vector; position p is data[p + 1].  *)
(***************************************************************************)
CellLe(a, b) == a.height >= b.height

RECURSIVE sift_up(_, _, _, _)
sift_up(data, start, pos, e) ==
    IF pos > start /\ ~CellLe(e, data[((pos - 1) \div 2) + 1])
    THEN sift_up([data EXCEPT ![pos + 1] = data[((pos - 1) \div 2) + 1]],
                 start, (pos - 1) \div 2, e)
    ELSE [data EXCEPT ![pos + 1] = e]

RECURSIVE SiftDownHole(_, _, _)
\* the hole of sift_down_to_bottom walks to the bottom along the greater child
SiftDownHole(data, pos, e) ==
    LET end == Len(data)
        child == 2 * pos + 1
    IN  IF child <= end - 2
        THEN LET c == IF CellLe(data[child + 1], data[child + 2]) THEN child + 1 ELSE child
             IN  SiftDownHole([data EXCEPT ![pos + 1] = data[c + 1]], c, e)
        ELSE IF child = end - 1
        THEN sift_up([data EXCEPT ![pos + 1] = data[child + 1]], 0, child, e)
        ELSE sift_up(data, 0, pos, e)

\* BinaryHeap::push
heap_push(data, item) == sift_up(Append(data, item), 0, Len(data), item)

\* BinaryHeap::pop on a heap that is not empty: the item and the heap left
heap_pop(data) ==
    LET item == data[Len(data)]
        rest == SubSeq(data, 1, Len(data) - 1)
    IN  IF rest = <<>> THEN [item |-> item, heap |-> rest]
        ELSE [item |-> rest[1], heap |-> SiftDownHole(rest, 0, item)]

\* the edge cells in the order fill_depressions seeds them
SeedCells(w, h) ==
    LET rows == [k \in 1..(2 * w) |->
                   IF k % 2 = 1 THEN <<(k - 1) \div 2, 0>> ELSE <<(k - 1) \div 2, h - 1>>]
        cols == [k \in 1..(2 * Max(h - 2, 0)) |->
                   IF k % 2 = 1 THEN <<0, ((k - 1) \div 2) + 1>>
                   ELSE <<w - 1, ((k - 1) \div 2) + 1>>]
    IN  rows \o cols

RECURSIVE PushAll(_, _, _, _)
PushAll(data, cells, buf, w) ==
    IF cells = <<>> THEN data
    ELSE LET c == Head(cells)
         IN  PushAll(heap_push(data, [x |-> c[1], z |-> c[2],
                                      height |-> HeightAt(buf, w, c[1], c[2])]),
                     Tail(cells), buf, w)

\* the height an unresolved neighbour is resolved at
KeepHeight(neighbor_height, cell_height) == neighbor_height

\* a fill that levels every neighbour to the popped cell
LevelHeight(neighbor_height, cell_height) == cell_height + epsilon

FilledHeight(neighbor_height, cell_height) ==
    IF neighbor_height < cell_height THEN cell_height + epsilon ELSE neighbor_height

RECURSIVE FillVisit(_, _, _, _)
\* the loop over the neighbours of a popped cell; st = [heights, open, closed]
FillVisit(st, cell, nbrs, w) ==
    IF nbrs = <<>> THEN st
    ELSE LET n == Head(nbrs)
             idx == n[2] * w + n[1]
         IN  IF idx \in st.closed THEN FillVisit(st, cell, Tail(nbrs), w)
             ELSE LET nh == FilledHeight(st.heights[idx + 1], cell.height)
                  IN  FillVisit([heights |-> [st.heights EXCEPT ![idx + 1] = nh],
                                 open |-> heap_push(st.open, [x |-> n[1], z |-> n[2],
                                                              height |-> nh]),
                                 closed |-> st.closed \cup {idx}],
                                cell, Tail(nbrs), w)

\* one turn of the while loop of fill_depressions
FillStep(st, w, h) ==
    LET p == heap_pop(st.open)
    IN  FillVisit([st EXCEPT !.open = p.heap], p.item,
                  get_neighbors_8(p.item.x, p.item.z, w, h), w)

\* the state of fill_depressions after the seeding loops
FillSeeded(buf, w, h) ==
    [heights |-> buf,
     open |-> PushAll(<<>>, SeedCells(w, h), buf, w),
     closed |-> {c[2] * w + c[1] : c \in {SeedCells(w, h)[k] : k \in 1..Len(SeedCells(w, h))}}]

RECURSIVE FillRun(_, _, _)
FillRun(st, w, h) == IF st.open = <<>> THEN st ELSE FillRun(FillStep(st, w, h), w, h)

\* fill_depressions, as the buffer it leaves
fill_depressions(buf, w, h) == FillRun(FillSeeded(buf, w, h), w, h).heights

RECURSIVE SteepestLast(_, _, _, _, _, _, _)
SteepestLast(buf, w, h, x, z, dir, best) ==
    IF dir > 7 THEN best.dir
    ELSE LET nx == x + dx[dir + 1]
             nz == z + dz[dir + 1]
             slope == HeightAt(buf, w, x, z) - HeightAt(buf, w, nx, nz)
         IN  IF InGrid(nx, nz, w, h) /\ slope >= best.slope
             THEN SteepestLast(buf, w, h, x, z, dir + 1, [slope |-> slope, dir |-> dir])
             ELSE SteepestLast(buf, w, h, x, z, dir + 1, best)

RECURSIVE Steepest(_, _, _, _, _, _, _)
\* the loop over the eight directions of calculate_flow_direction for cell (x, z)
Steepest(buf, w, h, x, z, dir, best) ==
    IF dir > 7 THEN best.dir
    ELSE LET nx == x + dx[dir + 1]
             nz == z + dz[dir + 1]
             slope == HeightAt(buf, w, x, z) - HeightAt(buf, w, nx, nz)
         IN  IF InGrid(nx, nz, w, h) /\ slope > best.slope
             THEN Steepest(buf, w, h, x, z, dir + 1, [slope |-> slope, dir |-> dir])
             ELSE Steepest(buf, w, h, x, z, dir + 1, best)

\* calculate_flow_direction
calculate_flow_direction(buf, w, h) ==
    [k \in 1..(w * h) |->
        Steepest(buf, w, h, (k - 1) % w, (k - 1) \div w, 0, [slope |-> 0, dir |-> NoDir])]

AscendingBefore(buf, a, b) == buf[a + 1] < buf[b + 1] \/ (buf[a + 1] = buf[b + 1] /\ a < b)

\* cell a comes before cell b after the stable sort by descending height
SortedBefore(buf, a, b) == buf[a + 1] > buf[b + 1] \/ (buf[a + 1] = buf[b + 1] /\ a < b)

\* the cells (as indices) in the order calculate_flow_accumulation visits them
SortedCells(buf, n) ==
    [k \in 1..n |->
        CHOOSE a \in 0..(n - 1) :
            Cardinality({b \in 0..(n - 1) : SortedBefore(buf, b, a)}) = k - 1]

RECURSIVE Propagate(_, _, _, _, _)
\* the propagation loop of calculate_flow_accumulation
Propagate(acc, cells, dirs, w, h) ==
    IF cells = <<>> THEN acc
    ELSE LET idx == Head(cells)
             dir == dirs[idx + 1]
             nx == (idx % w) + dx[dir + 1]
             nz == (idx \div w) + dz[dir + 1]
         IN  IF dir < 8 /\ InGrid(nx, nz, w, h)
             THEN Propagate([acc EXCEPT ![nz * w + nx + 1] = @ + acc[idx + 1]],
                            Tail(cells), dirs, w, h)
             ELSE Propagate(acc, Tail(cells), dirs, w, h)

\* calculate_flow_accumulation
calculate_flow_accumulation(buf, dirs, w, h) ==
    Propagate([k \in 1..(w * h) |-> 1], SortedCells(buf, w * h), dirs, w, h)


(***************************************************************************)
(* The hydrology passes run on a given buffer: fill_depressions (one turn  *)
(* of its loop per step) or not, then calculate_flow_direction, then       *)
(* calculate_flow_accumulation on the directions just computed.            *)
(***************************************************************************)
MaxWidth == 4
MaxHeight == 3
MaxLevel == 3

\* the terrain shapes the buffers are drawn from, before two cells are set apart
BaseHeight(shape, x, z, w, h) ==
    CASE shape = "flat" -> 2
      [] shape = "ramp_x" -> x + 1
      [] shape = "ramp_z" -> z + 1
      [] shape = "rim" -> IF x = 0 \/ z = 0 \/ x = w - 1 \/ z = h - 1 THEN MaxLevel + 1 ELSE 1

\* buffers of w * h heights: a shape, cell c1 set to l1 and a cell next to it to l2
InputBuffers(w, h) ==
    {[k \in 1..(w * h) |->
         IF k - 1 = c1 THEN l1
         ELSE IF k - 1 = c1 + off /\ off > 0 THEN l2
         ELSE BaseHeight(shape, (k - 1) % w, (k - 1) \div w, w, h)] :
       shape \in {"flat", "ramp_x", "ramp_z", "rim"}, c1 \in 0..(w * h - 1), l1 \in 0..MaxLevel,
       off \in {0, 1, w}, l2 \in {0, MaxLevel}}

SessionIdle ==
    /\ CallsIdle
    /\ ErosionIdle
    /\ terrain_db = EmptyDb
    /\ config = DefaultConfig
    /\ chunks = <<>> /\ chunks0 = <<>> /\ dirty_chunks = {}
    /\ river_network = <<>> /\ water_sources = <<>>
    /\ entries = <<>> /\ current_group = 0
    /\ hist = <<>> /\ last = NoOp

InitHydro ==
    /\ SessionIdle
    /\ width \in 1..MaxWidth
    /\ height \in 1..MaxHeight
    /\ heights \in InputBuffers(width, height)
    /\ heights_in = heights
    /\ open = <<>> /\ closed = {} /\ flow_direction = <<>> /\ accumulation = <<>>
    /\ phase = "input"

\* fill_depressions up to its while loop
FillBegin ==
    /\ phase = "input"
    /\ LET st == FillSeeded(heights, width, height)
       IN  /\ open' = st.open
           /\ closed' = st.closed
    /\ phase' = "fill"
    /\ UNCHANGED <<terrain_db, erosionVars, callVars, terrainVars, undoVars, histVars, width, height, heights, flow_direction,
                   accumulation, heights_in>>

\* one turn of the while loop of fill_depressions
FillPop ==
    /\ phase = "fill"
    /\ open # <<>>
    /\ LET st == FillStep([heights |-> heights, open |-> open, closed |-> closed],
                          width, height)
       IN  /\ heights' = st.heights
           /\ open' = st.open
           /\ closed' = st.closed
    /\ UNCHANGED <<terrain_db, erosionVars, callVars, terrainVars, undoVars, histVars, width, height, flow_direction,
                   accumulation, heights_in, phase>>

\* calculate_flow_direction, on the buffer as given or as fill_depressions left it
FlowDirection ==
    /\ phase = "input" \/ (phase = "fill" /\ open = <<>>)
    /\ flow_direction' = calculate_flow_direction(heights, width, height)
    /\ phase' = "directed"
    /\ UNCHANGED <<terrain_db, erosionVars, callVars, terrainVars, undoVars, histVars, width, height, heights, open, closed,
                   accumulation, heights_in>>

\* calculate_flow_accumulation
FlowAccumulation ==
    /\ phase = "directed"
    /\ accumulation' = calculate_flow_accumulation(heights, flow_direction, width, height)
    /\ phase' = "done"
    /\ UNCHANGED <<terrain_db, erosionVars, callVars, terrainVars, undoVars, histVars, width, height, heights, open, closed,
                   flow_direction, heights_in>>

NextHydro == FillBegin \/ FillPop \/ FlowDirection \/ FlowAccumulation

SpecHydro == InitHydro /\ [][NextHydro]_vars

\* fill_depressions has run to its end on the buffer
FillFinished == closed # {} /\ open = <<>> /\ phase # "input"

Interior == {c \in 0..(width * height - 1) :
               /\ c % width >= 1 /\ c % width <= width - 2
               /\ c \div width >= 1 /\ c \div width <= height - 2}

\* the 8-connected cells around cell c that lie in the grid
Around(c) == {d \in 0..(width * height - 1) :
                /\ d # c
                /\ (d % width) - (c % width) \in {-1, 0, 1}
                /\ (d \div width) - (c \div width) \in {-1, 0, 1}}

(***************************************************************************)
(* C5: after fill_depressions on a grid at least 3 wide and 3 high no      *)
(* interior cell is a strict local minimum: every interior cell has an     *)
(* 8-connected neighbour that is not higher than it.                       *)
(***************************************************************************)
C5_NoInteriorStrictMinimum ==
    (FillFinished /\ width >= 3 /\ height >= 3)
        => \A c \in Interior : \E d \in Around(c) : heights[d + 1] <= heights[c + 1]

\* a pit of two interior cells has been filled
C5_Witness ==
    /\ FillFinished /\ width >= 4 /\ height >= 3
    /\ \A c \in Interior : heights[c + 1] > heights_in[c + 1]
    /\ \E c \in Interior : \A d \in Around(c) : heights_in[d + 1] > heights_in[c + 1]

RECURSIVE DrainsWithin(_, _)
\* the cells with a non-increasing 8-connected path to a border cell of at most k steps
DrainsWithin(k, reached) ==
    IF k = 0 THEN reached
    ELSE DrainsWithin(k - 1,
            reached \cup {c \in 0..(width * height - 1) :
                            \E d \in Around(c) \cap reached : heights[d + 1] <= heights[c + 1]})

Border == (0..(width * height - 1)) \ Interior

(***************************************************************************)
(* C6: after fill_depressions every interior cell has a path of            *)
(* 8-connected cells to a border cell along which the height never rises.  *)
(***************************************************************************)
C6_EveryCellDrainsToBorder ==
    FillFinished => Interior \subseteq DrainsWithin(width * height, Border)

\* a filled grid with an interior cell that was a pit and whose every way down
\* to the border leads over another interior cell
C6_Witness ==
    /\ FillFinished
    /\ \E c \in Interior :
         /\ heights[c + 1] > heights_in[c + 1]
         /\ \A d \in Around(c) \cap Border : heights[d + 1] > heights[c + 1]

RECURSIVE Downstream(_, _)
\* the cells on the way down from cell c along flow_direction, c included
Downstream(c, k) ==
    LET dir == flow_direction[c + 1]
        nx == (c % width) + dx[dir + 1]
        nz == (c \div width) + dz[dir + 1]
    IN  IF k = 0 \/ dir >= 8 \/ ~InGrid(nx, nz, width, height) THEN {c}
        ELSE {c} \cup Downstream(nz * width + nx, k - 1)

(***************************************************************************)
(* C7: with the directions calculate_flow_direction computed from the same *)
(* heights, the accumulation of a cell is the number of cells, itself      *)
(* included, whose way down passes through it; it is at least 1 and at     *)
(* most the number of cells.                                               *)
(***************************************************************************)
C7_AccumulationCountsUpstream ==
    phase = "done" =>
        \A c \in 0..(width * height - 1) :
            /\ accumulation[c + 1] =
                  Cardinality({s \in 0..(width * height - 1) :
                                  c \in Downstream(s, width * height)})
            /\ accumulation[c + 1] >= 1
            /\ accumulation[c + 1] <= width * height

\* a confluence: a cell that takes the flow of at least three others, two of them directly
C7_Witness ==
    /\ phase = "done"
    /\ \E c \in 0..(width * height - 1) :
         /\ accumulation[c + 1] >= 4
         /\ Cardinality({s \in Around(c) : flow_direction[s + 1] < 8
                           /\ (s % width) + dx[flow_direction[s + 1] + 1] = c % width
                           /\ (s \div width) + dz[flow_direction[s + 1] + 1] = c \div width}) >= 2

\* the drop from cell c to its neighbour in direction d (0..7), for a neighbour in the grid
Drop(c, d) ==
    heights[c + 1] - HeightAt(heights, width, (c % width) + dx[d + 1], (c \div width) + dz[d + 1])

DirsInGrid(c) ==
    {d \in 0..7 : InGrid((c % width) + dx[d + 1], (c \div width) + dz[d + 1], width, height)}

(***************************************************************************)
(* C8: calculate_flow_direction gives each cell the in-grid neighbour with *)
(* the largest strictly positive drop (no weighting of diagonals), the     *)
(* first of them in the order E, SE, S, SW, W, NW, N, NE, and gives 255    *)
(* exactly when no in-grid neighbour is strictly lower.                    *)
(***************************************************************************)
C8_SteepestFirstDirection ==
    phase \in {"directed", "done"} =>
        \A c \in 0..(width * height - 1) :
            LET lower == {d \in DirsInGrid(c) : Drop(c, d) > 0}
                dir == flow_direction[c + 1]
            IN  IF lower = {} THEN dir = NoDir
                ELSE /\ dir \in lower
                     /\ \A d \in lower : Drop(c, d) <= Drop(c, dir)
                     /\ \A d \in lower : d < dir => Drop(c, d) < Drop(c, dir)

\* one cell with two neighbours sharing its largest drop, one cell without a lower neighbour
C8_Witness ==
    /\ phase = "directed"
    /\ \E c \in 0..(width * height - 1) :
         \E d \in DirsInGrid(c) :
            /\ d > flow_direction[c + 1]
            /\ Drop(c, d) = Drop(c, flow_direction[c + 1])
    /\ \E c \in 0..(width * height - 1) : flow_direction[c + 1] = NoDir

(***************************************************************************)
(* River extraction (rivers.rs).  A path point (x as f32, z as f32) is the *)
(* pair <<x, z>>.  max_path_steps is the step budget of trace_river_path   *)
(* (1000 in the source), scaled down so that a column can outrun it.       *)
(***************************************************************************)
max_path_steps == 4

\* the longest path extract_rivers still discards
noise_path_len == 2

\* calculate_order
calculate_order(flow) ==
    IF flow < 1000 THEN 1
    ELSE IF flow < 5000 THEN 2
    ELSE IF flow < 20000 THEN 3
    ELSE IF flow < 100000 THEN 4
    ELSE 5

\* calculate_width, in units of 0.0001 m: 5.0 * 1.5^(order - 1)
calculate_width(order) == <<50000, 75000, 112500, 168750, 253125>>[order]

MarkNothing(visited, idx) == visited

\* visited[idx] = true
MarkVisited(visited, idx) == visited \cup {idx}

RECURSIVE TracePath(_, _, _, _, _, _, _, _)
\* the loop of trace_river_path with k turns left
TracePath(x, z, k, path, visited, dirs, w, h) ==
    LET idx == z * w + x
        dir == dirs[idx + 1]
        nx == x + dx[dir + 1]
        nz == z + dz[dir + 1]
        seen == MarkVisited(visited, idx)
        here == [path |-> Append(path, <<x, z>>), visited |-> seen]
    IN  IF k = 0 \/ idx >= w * h THEN [path |-> path, visited |-> visited]
        ELSE IF dir >= 8 THEN here
        ELSE IF ~InGrid(nx, nz, w, h) THEN here
        ELSE IF (nz * w + nx) \in seen THEN here
        ELSE TracePath(nx, nz, k - 1, here.path, seen, dirs, w, h)

\* trace_river_path
trace_river_path(start_x, start_z, dirs, w, h, visited) ==
    TracePath(start_x, start_z, max_path_steps, <<>>, visited, dirs, w, h)

RECURSIVE ExtractScan(_, _, _, _, _, _, _, _)
\* the scan of extract_rivers from cell idx on
ExtractScan(idx, segments, visited, segment_id, acc, dirs, w, threshold) ==
    IF idx >= Len(acc) THEN segments
    ELSE IF acc[idx + 1] >= threshold /\ idx \notin visited
    THEN LET t == trace_river_path(idx % w, idx \div w, dirs, w, Len(acc) \div w, visited)
             order == calculate_order(acc[idx + 1])
         IN  IF Len(t.path) > noise_path_len
             THEN ExtractScan(idx + 1,
                              Append(segments, [id |-> segment_id, path |-> t.path,
                                                strahler_order |-> order,
                                                width_meters |-> calculate_width(order)]),
                              t.visited, segment_id + 1, acc, dirs, w, threshold)
             ELSE ExtractScan(idx + 1, segments, t.visited, segment_id, acc, dirs, w, threshold)
    ELSE ExtractScan(idx + 1, segments, visited, segment_id, acc, dirs, w, threshold)

\* extract_rivers, as the segments of the network it returns
extract_rivers(acc, dirs, w, h, threshold) ==
    ExtractScan(0, <<>>, {}, 0, acc, dirs, w, threshold)

(***************************************************************************)
(* extract_rivers run on given flow fields: accumulation 2000 on the cells *)
(* of one column, of one row, of one cell or of all cells and 1 elsewhere, *)
(* against the threshold 1000; directions all alike but for one cell.      *)
(***************************************************************************)
RiverMaxWidth == 2
RiverMaxHeight == 5

river_threshold == 1000

HotSets(w, h) ==
    {{c \in 0..(w * h - 1) : c % w = col} : col \in 0..(w - 1)}
    \cup {{c \in 0..(w * h - 1) : c \div w = row} : row \in 0..(h - 1)}
    \cup {{c} : c \in 0..(w * h - 1)}
    \cup {0..(w * h - 1)}

InputAccumulations(w, h) ==
    {[k \in 1..(w * h) |-> IF (k - 1) \in hot THEN 2000 ELSE 1] : hot \in HotSets(w, h)}

InputDirections(w, h) ==
    {[k \in 1..(w * h) |-> IF k - 1 = c1 THEN d1 ELSE d0] :
        d0 \in {0, 2, 4, 6, NoDir}, c1 \in 0..(w * h - 1), d1 \in {0, 2, 5, 6, NoDir}}

InitRivers ==
    /\ SessionIdle
    /\ width \in 1..RiverMaxWidth
    /\ height \in 1..RiverMaxHeight
    /\ accumulation \in InputAccumulations(width, height)
    /\ flow_direction \in InputDirections(width, height)
    /\ heights = <<>> /\ heights_in = <<>> /\ open = <<>> /\ closed = {}
    /\ phase = "flows"

ExtractRivers ==
    /\ phase = "flows"
    /\ river_network' = extract_rivers(accumulation, flow_direction, width, height,
                                       river_threshold)
    /\ phase' = "extracted"
    /\ UNCHANGED <<terrain_db, erosionVars, callVars, config, chunks, dirty_chunks, water_sources, undoVars, histVars, width,
                   height, heights, open, closed, flow_direction, accumulation, heights_in>>

NextRivers == ExtractRivers

SpecRivers == InitRivers /\ [][NextRivers]_vars

\* exactly the cells of column col reach the threshold and each of them points South
ColumnOfSouth(col) ==
    /\ \A c \in 0..(width * height - 1) :
          (accumulation[c + 1] >= river_threshold) <=> (c % width = col)
    /\ \A c \in 0..(width * height - 1) : c % width = col => flow_direction[c + 1] = 2

\* the network is one segment whose path is column col from the top row to the bottom row
OneSegmentDownColumn(col) ==
    /\ Len(river_network) = 1
    /\ river_network[1].path = [k \in 1..height |-> <<col, k - 1>>]

\* C9 as stated: whatever the number of rows
C9_ColumnAnyHeight ==
    phase = "extracted" =>
        \A col \in 0..(width - 1) : ColumnOfSouth(col) => OneSegmentDownColumn(col)

(***************************************************************************)
(* C9: when exactly the cells of one column reach the threshold and all of *)
(* them point South, and the grid has more rows than a discarded path has  *)
(* points and no more rows than the step budget, extract_rivers returns    *)
(* exactly one segment and its path is that column from top to bottom.     *)
(***************************************************************************)
C9_ColumnWithinBudget ==
    (phase = "extracted" /\ height > noise_path_len /\ height <= max_path_steps) =>
        \A col \in 0..(width - 1) : ColumnOfSouth(col) => OneSegmentDownColumn(col)

\* the second column of a grid of two columns, the other cells pointing at it
C9_Witness ==
    /\ phase = "extracted" /\ width = 2 /\ height = max_path_steps
    /\ ColumnOfSouth(1)
    /\ flow_direction[1] = 0
    /\ Len(river_network) = 1

(***************************************************************************)
(* Hydraulic erosion (erosion.rs), in fixed point.  Heights and sediment   *)
(* are in units of 0.0001; positions, directions, velocity and water are   *)
(* in units of 1 / FixedOne.  A NaN velocity (the square root of a         *)
(* negative number) is the value NaNVelocity.                              *)
(***************************************************************************)
FixedOne == 10000
NaNVelocity == -1

\* the height 1.0
MaxNormalHeight == 10000

\* ErosionParams::default(), max_lifetime scaled down from 64
max_lifetime == 2
erosion_radius == 3
inertia_tenths == 1
sediment_capacity_factor == 6
min_sediment_capacity == 100
erosion_speed_tenths == 5
deposition_speed_tenths == 3
evaporation_percent == 2
gravity == 8

RECURSIVE SqrtSearch(_, _, _)
SqrtSearch(n, lo, hi) ==
    IF lo = hi THEN lo
    ELSE LET mid == (lo + hi + 1) \div 2
         IN  IF mid * mid <= n THEN SqrtSearch(n, mid, hi) ELSE SqrtSearch(n, lo, mid - 1)

\* f32::sqrt of a number that is not negative, rounded down
isqrt(n) == SqrtSearch(n, 0, 46340)

\* a clamp that bounds from below only
ClampLow(v) == Max(0, v)

\* f32::clamp(0.0, 1.0)
clamp01(v) == IF v < 0 THEN 0 ELSE IF v > MaxNormalHeight THEN MaxNormalHeight ELSE v

\* gaussian_weight(dist, 3.0) = exp(-4 dist^2 / 9) for the squared distances of a grid
gaussian_weight(dist2) ==
    CASE dist2 = 0 -> 10000
      [] dist2 = 1 -> 6412
      [] dist2 = 2 -> 4111
      [] dist2 = 4 -> 1690
      [] dist2 = 5 -> 1084
      [] dist2 = 8 -> 286
      [] dist2 = 9 -> 183

\* calculate_gradient of erosion.rs
calculate_gradient(buf, x, z, w) ==
    <<HeightAt(buf, w, x + 1, z) - HeightAt(buf, w, x, z),
      HeightAt(buf, w, x, z + 1) - HeightAt(buf, w, x, z)>>

\* sample_height: bilinear interpolation at the position (x, z)
sample_height(buf, x, z, w) ==
    LET ix == x \div FixedOne
        iz == z \div FixedOne
        fx == x - ix * FixedOne
        fz == z - iz * FixedOne
        h0 == (HeightAt(buf, w, ix, iz) * (FixedOne - fx)
               + HeightAt(buf, w, ix + 1, iz) * fx) \div FixedOne
        h1 == (HeightAt(buf, w, ix, iz + 1) * (FixedOne - fx)
               + HeightAt(buf, w, ix + 1, iz + 1) * fx) \div FixedOne
    IN  (h0 * (FixedOne - fz) + h1 * fz) \div FixedOne

\* the offsets (dx, dz) of collect_erosion and collect_deposit in loop order
BrushOffsets ==
    [k \in 1..((2 * erosion_radius + 1) * (2 * erosion_radius + 1)) |->
        <<((k - 1) % (2 * erosion_radius + 1)) - erosion_radius,
          ((k - 1) \div (2 * erosion_radius + 1)) - erosion_radius>>]

\* collect_deposit (sign = 1) and collect_erosion (sign = -1): the changes pushed
collect(x, z, amount, sign, w, h) ==
    LET ix == x \div FixedOne
        iz == z \div FixedOne
        inside == SelectSeq(BrushOffsets, LAMBDA o :
                     /\ InGrid(ix + o[1], iz + o[2], w, h)
                     /\ o[1] * o[1] + o[2] * o[2] <= erosion_radius * erosion_radius)
    IN  [k \in 1..Len(inside) |->
           [idx |-> (iz + inside[k][2]) * w + ix + inside[k][1],
            delta |-> sign * ((amount
                               * gaussian_weight(inside[k][1] * inside[k][1]
                                                 + inside[k][2] * inside[k][2]))
                              \div FixedOne)]]

\* the element of a set of one element; {f(x) : x \in {e}} computes e once for all the
\* places f uses it in
Only(S) == CHOOSE x \in S : TRUE

\* one turn of the loop of simulate_droplet and of simulate_droplet_collect for the
\* droplet d: whether the loop goes on, the droplet after the turn, whether the turn
\* deposits, and the changes of the turn
DropletTurn(d, buf, w, h) ==
    LET ix == d.x \div FixedOne
        iz == d.z \div FixedOne
        stop == [alive |-> FALSE, d |-> d, depositing |-> FALSE, changes |-> <<>>]
    IN
    IF ix >= w - 1 \/ iz >= h - 1 THEN stop
    ELSE
    LET grad == calculate_gradient(buf, ix, iz, w)
        raw_x == (d.dir_x * inertia_tenths) \div 10 - (grad[1] * (10 - inertia_tenths)) \div 10
        raw_z == (d.dir_z * inertia_tenths) \div 10 - (grad[2] * (10 - inertia_tenths)) \div 10
        len == isqrt(raw_x * raw_x + raw_z * raw_z)
        dir_x == IF len > 0 THEN (raw_x * FixedOne) \div len ELSE raw_x
        dir_z == IF len > 0 THEN (raw_z * FixedOne) \div len ELSE raw_z
        new_x == d.x + dir_x
        new_z == d.z + dir_z
    IN
    IF new_x < 0 \/ new_x >= (w - 1) * FixedOne \/ new_z < 0 \/ new_z >= (h - 1) * FixedOne
    THEN stop
    ELSE
    LET height_diff == sample_height(buf, new_x, new_z, w) - sample_height(buf, d.x, d.z, w)
        nan == d.velocity = NaNVelocity
        capacity == ((((Max(-height_diff, min_sediment_capacity) * d.velocity) \div FixedOne)
                       * d.water) \div FixedOne) * sediment_capacity_factor
        depositing == (~nan /\ d.sediment > capacity) \/ height_diff > 0
        amount == IF depositing
                  THEN IF height_diff > 0 THEN Min(height_diff, d.sediment)
                       ELSE ((d.sediment - capacity) * deposition_speed_tenths) \div 10
                  ELSE IF nan THEN ((-height_diff) * erosion_speed_tenths) \div 10
                  ELSE (Min(capacity - d.sediment, -height_diff) * erosion_speed_tenths) \div 10
        v2 == (d.velocity * d.velocity) \div FixedOne + height_diff * gravity
    IN  [alive |-> TRUE,
         d |-> [x |-> new_x, z |-> new_z, dir_x |-> dir_x, dir_z |-> dir_z,
                velocity |-> IF nan \/ v2 < 0 THEN NaNVelocity ELSE isqrt(v2 * FixedOne),
                water |-> (d.water * (100 - evaporation_percent)) \div 100,
                sediment |-> IF depositing THEN d.sediment - amount
                             ELSE d.sediment + amount,
                changes |-> d.changes],
         depositing |-> depositing,
         changes |-> collect(d.x, d.z, amount, IF depositing THEN 1 ELSE -1, w, h)]

RECURSIVE DropletLoop(_, _, _, _, _)
\* the loop of simulate_droplet_collect with k turns left; d is the droplet
DropletLoop(d, k, buf, w, h) ==
    IF k = 0 THEN d.changes
    ELSE Only({IF ~turn.alive THEN d.changes
               ELSE DropletLoop([turn.d EXCEPT !.changes = d.changes \o turn.changes],
                                k - 1, buf, w, h) :
               turn \in {DropletTurn(d, buf, w, h)}})

\* a droplet as the generator starts it on the corner of cell (start_x, start_z)
NewDroplet(start_x, start_z) ==
    [x |-> start_x * FixedOne, z |-> start_z * FixedOne, dir_x |-> 0, dir_z |-> 0,
     velocity |-> FixedOne, water |-> FixedOne, sediment |-> 0, changes |-> <<>>]

\* simulate_droplet_collect for a droplet the generator starts on the corner of cell
\* (start_x, start_z): the changes it collects
simulate_droplet_collect(buf, w, h, start_x, start_z) ==
    DropletLoop(NewDroplet(start_x, start_z), max_lifetime, buf, w, h)

RECURSIVE ApplyChanges(_, _)
\* the loop that applies one droplet's changes under the lock
ApplyChanges(buf, changes) ==
    IF changes = <<>> THEN buf
    ELSE LET c == Head(changes)
         IN  ApplyChanges(IF c.idx < Len(buf)
                          THEN [buf EXCEPT ![c.idx + 1] = clamp01(@ + c.delta)]
                          ELSE buf,
                          Tail(changes))

RECURSIVE erode_terrain_parallel(_, _, _, _)
\* erode_terrain_parallel for droplets that take the lock one after the other, each
\* simulating and applying before the next; starts are the random start cells
erode_terrain_parallel(buf, w, h, starts) ==
    IF starts = <<>> THEN buf
    ELSE erode_terrain_parallel(
            ApplyChanges(buf, simulate_droplet_collect(buf, w, h,
                                                       Head(starts)[1], Head(starts)[2])),
            w, h, Tail(starts))

(***************************************************************************)
(* The terrain session: the commands of commands.rs on the TerrainData     *)
(* behind the Mutex.  A state of the specification is a state in which the *)
(* lock is free: an action is one critical section, together with the      *)
(* lock-free computation of the same invocation that precedes it.          *)
(***************************************************************************)

\* the river threshold of generate_terrain, scaled down from 1000.0
generate_river_threshold == 3

\* num_droplets per erosion iteration, scaled down from 1000
droplets_per_iteration == 1

\* the edits one behaviour makes
MaxBrush == 1

\* the worlds requested
WorldWidth == 3
WorldHeight == 4
Seeds == {1, 2}

\* TerrainConfig::new
TerrainConfig_new(w, h, seed) == [world_width |-> w, world_height |-> h, seed |-> seed]

chunk_count_x(cfg) == (cfg.world_width + chunk_size - 1) \div chunk_size
chunk_count_z(cfg) == (cfg.world_height + chunk_size - 1) \div chunk_size

Abs(v) == IF v < 0 THEN -v ELSE v

\* The height generate_terrain_simd and post_process_terrain leave at the global sample
\* (gx, gz): a function of the seed and the position alone.  The noise libraries are
\* stood for by a valley that runs south, in the column the seed selects.
SampleHeight(seed, gx, gz) ==
    clamp01(7000 - 1500 * gz + 1000 * Abs(gx - (seed % WorldWidth)))

\* generate_terrain_simd followed by post_process_terrain: the Vec of chunks, chunk_z outer
generate_terrain_simd(cfg) ==
    [k \in 1..(chunk_count_x(cfg) * chunk_count_z(cfg)) |->
        LET chunk_x == (k - 1) % chunk_count_x(cfg)
            chunk_z == (k - 1) \div chunk_count_x(cfg)
        IN  from_heights(<<chunk_x, chunk_z>>,
               [i \in 1..(vertex_count * vertex_count) |->
                   SampleHeight(cfg.seed,
                                chunk_x * chunk_size + ((i - 1) % vertex_count),
                                chunk_z * chunk_size + ((i - 1) \div vertex_count))])]

\* global_x and global_z of sample i (from 1) of the chunk at coord
GlobalX(coord, i) == coord[1] * chunk_size + ((i - 1) % vertex_count)
GlobalZ(coord, i) == coord[2] * chunk_size + ((i - 1) \div vertex_count)

\* the samples of a chunk that lie inside the world, in loop order
InWorld(coord, w, h) ==
    SelectSeq([i \in 1..(vertex_count * vertex_count) |-> i],
              LAMBDA i : GlobalX(coord, i) < w /\ GlobalZ(coord, i) < h)

RECURSIVE FlattenChunks(_, _, _, _)
\* the loop that flattens the chunks into one heightmap, later chunks overwriting
FlattenChunks(buf, chs, w, h) ==
    IF chs = <<>> THEN buf
    ELSE LET chunk == Head(chs)
         IN  FlattenChunks(
                [g \in 1..(w * h) |->
                    LET lx == ((g - 1) % w) - chunk.coord[1] * chunk_size
                        lz == ((g - 1) \div w) - chunk.coord[2] * chunk_size
                    IN  IF lx \in 0..(vertex_count - 1) /\ lz \in 0..(vertex_count - 1)
                        THEN chunk.heights[lz * vertex_count + lx + 1]
                        ELSE buf[g]],
                Tail(chs), w, h)

\* the loop that copies the heightmap and the flow data back into one chunk
CopyBack(chunk, buf, acc, w, h) ==
    LET inside == InWorld(chunk.coord, w, h)
        global(i) == GlobalZ(chunk.coord, i) * w + GlobalX(chunk.coord, i) + 1
    IN  [coord |-> chunk.coord, lod |-> chunk.lod, biome_ids |-> chunk.biome_ids,
         heights |-> [i \in 1..Len(chunk.heights) |->
                        IF GlobalX(chunk.coord, i) < w /\ GlobalZ(chunk.coord, i) < h
                        THEN buf[global(i)] ELSE chunk.heights[i]],
         flow_accumulation |-> [some |-> TRUE,
                                data |-> [k \in 1..Len(inside) |-> acc[global(inside[k])]]]]

\* The lock-free part of generate_terrain: the locals of the invocation when it reaches
\* its first lock.  starts are the start cells the unseeded generator of
\* erode_terrain_parallel draws, one for each droplet.
GenerateLocals(request, starts) ==
    LET cfg == TerrainConfig_new(request.width, request.height, request.seed)
        w == request.width
        h == request.height
        generated == generate_terrain_simd(cfg)
    IN  IF request.use_erosion
        THEN LET filled == fill_depressions(FlattenChunks([g \in 1..(w * h) |-> 0],
                                                          generated, w, h), w, h)
                 eroded == erode_terrain_parallel(filled, w, h, starts)
                 dirs == calculate_flow_direction(eroded, w, h)
                 acc == calculate_flow_accumulation(eroded, dirs, w, h)
             IN  [pc |-> "commit", request |-> request, config |-> cfg,
                  chunks |-> [k \in 1..Len(generated) |->
                                CopyBack(generated[k], eroded, acc, w, h)],
                  rivers |-> extract_rivers(acc, dirs, w, h, generate_river_threshold)]
        ELSE [pc |-> "commit", request |-> request, config |-> cfg, chunks |-> generated,
              rivers |-> <<>>]

\* the requests of the callers
Requests ==
    [width : {WorldWidth}, height : {WorldHeight}, seed : Seeds,
     use_erosion : BOOLEAN, erosion_iterations : {1}]

\* the start cells the random generator is let to draw
StartCells == {<<0, 0>>, <<1, 1>>}

\* the sequences of n start cells
StartsOf(n) == [1..n -> StartCells]

\* generate_terrain up to the end of its erosion block: with use_erosion the river
\* network is stored under a lock of its own, which is released again
GenerateBegin(p, request, starts) ==
    /\ calls[p].pc = "idle"
    /\ calls' = [calls EXCEPT ![p] = GenerateLocals(request, starts)]
    /\ IF request.use_erosion
       THEN /\ river_network' = calls'[p].rivers
            /\ origin' = [origin EXCEPT !.rivers = p]
       ELSE UNCHANGED <<river_network, origin>>
    /\ last' = [NoOp EXCEPT !.op = "generate", !.n = last.n]
    /\ UNCHANGED <<config, chunks, dirty_chunks, water_sources, undoVars, hist, chunks0,
                   hydroVars, erosionVars, terrain_db>>

\* generate_terrain from "Update terrain data": the second lock
GenerateCommit(p) ==
    /\ calls[p].pc = "commit"
    /\ config' = calls[p].config
    /\ chunks' = [c \in {calls[p].chunks[k].coord : k \in 1..Len(calls[p].chunks)} |->
                    LET k == CHOOSE j \in 1..Len(calls[p].chunks) :
                                /\ calls[p].chunks[j].coord = c
                                /\ \A m \in (j + 1)..Len(calls[p].chunks) :
                                      calls[p].chunks[m].coord # c
                    IN  calls[p].chunks[k]]
    /\ dirty_chunks' = {}
    /\ calls' = [calls EXCEPT ![p].pc = "done"]
    /\ origin' = [origin EXCEPT !.config = p, !.chunks = p]
    /\ last' = [NoOp EXCEPT !.op = "generate", !.n = last.n]
    /\ UNCHANGED <<river_network, water_sources, undoVars, hist, chunks0, hydroVars,
                   erosionVars, terrain_db>>

\* gaussian_falloff(distance, radius) = exp(-4 distance^2 / radius^2), for the squared
\* distances of a grid and the radii 1 and 2
gaussian_falloff(dist2, radius) ==
    CASE dist2 = 0 -> 10000
      [] dist2 = 1 /\ radius = 1 -> 183
      [] dist2 = 1 /\ radius = 2 -> 3679
      [] dist2 = 2 /\ radius = 2 -> 1353
      [] dist2 = 4 /\ radius = 2 -> 183

\* the samples a brush reaches, in loop order: inside the clipped square and the radius
BrushReach(center_x, center_z, radius) ==
    LET min_x == Min(Max(center_x - radius, 0), vertex_count - 1)
        max_x == Min(Min(center_x + radius, vertex_count - 1), vertex_count - 1)
        min_z == Min(Max(center_z - radius, 0), vertex_count - 1)
        max_z == Min(Min(center_z + radius, vertex_count - 1), vertex_count - 1)
    IN  SelectSeq([i \in 1..(vertex_count * vertex_count) |-> i],
           LAMBDA i :
              LET x == (i - 1) % vertex_count
                  z == (i - 1) \div vertex_count
              IN  /\ x >= min_x /\ x <= max_x /\ z >= min_z /\ z <= max_z
                  /\ (x - center_x) * (x - center_x) + (z - center_z) * (z - center_z)
                        <= radius * radius)

\* the squared distance of sample i from the centre
Dist2(i, center_x, center_z) ==
    LET x == (i - 1) % vertex_count
        z == (i - 1) \div vertex_count
    IN  (x - center_x) * (x - center_x) + (z - center_z) * (z - center_z)

\* apply_raise
apply_raise(hs, center_x, center_z, radius, strength) ==
    LET reach == BrushReach(center_x, center_z, radius)
    IN  [i \in 1..Len(hs) |->
           IF \E k \in 1..Len(reach) : reach[k] = i
           THEN clamp01(hs[i] + (strength * gaussian_falloff(Dist2(i, center_x, center_z),
                                                             radius)) \div 100)
           ELSE hs[i]]

\* apply_lower
apply_lower(hs, center_x, center_z, radius, strength) ==
    apply_raise(hs, center_x, center_z, radius, -strength)

\* apply_flatten: toward target_height, with no clamp
apply_flatten(hs, center_x, center_z, radius, strength, target_height) ==
    LET reach == BrushReach(center_x, center_z, radius)
    IN  [i \in 1..Len(hs) |->
           IF \E k \in 1..Len(reach) : reach[k] = i
           THEN hs[i] + (((target_height - hs[i])
                          * gaussian_falloff(Dist2(i, center_x, center_z), radius))
                         \div FixedOne) * strength
           ELSE hs[i]]

\* clamp of calculate_average: a coordinate pulled into the chunk
ClampCoord(v) == Max(0, Min(v, vertex_count - 1))

RECURSIVE KernelSum(_, _, _, _, _)
\* the sum of calculate_average over the kernel offsets from number k on
KernelSum(hs, x, z, kernel_size, k) ==
    LET side == 2 * kernel_size + 1
    IN  IF k > side * side THEN 0
        ELSE hs[ClampCoord(z + ((k - 1) \div side) - kernel_size) * vertex_count
                + ClampCoord(x + ((k - 1) % side) - kernel_size) + 1]
             + KernelSum(hs, x, z, kernel_size, k + 1)

\* calculate_average: every clamped index is inside the chunk, so all offsets count
calculate_average(hs, x, z, kernel_size) ==
    KernelSum(hs, x, z, kernel_size, 1)
        \div ((2 * kernel_size + 1) * (2 * kernel_size + 1))

\* apply_smooth: toward the average of the heights before the stroke, with no clamp
apply_smooth(hs, center_x, center_z, radius, strength) ==
    LET reach == BrushReach(center_x, center_z, radius)
    IN  [i \in 1..Len(hs) |->
           IF \E k \in 1..Len(reach) : reach[k] = i
           THEN hs[i] + (((calculate_average(hs, (i - 1) % vertex_count,
                                             (i - 1) \div vertex_count, 1) - hs[i])
                          * gaussian_falloff(Dist2(i, center_x, center_z), radius))
                         \div FixedOne) * strength
           ELSE hs[i]]

RECURSIVE ErodeReach(_, _, _, _, _)
\* the loop of apply_erode over the samples it reaches: each sample moves toward the
\* average of the heights as they are when the loop gets to it
ErodeReach(hs, reach, center_x, center_z, radius) ==
    IF reach = <<>> THEN hs
    ELSE LET i == Head(reach)
             avg == calculate_average(hs, (i - 1) % vertex_count,
                                      (i - 1) \div vertex_count, 2)
         IN  ErodeReach([hs EXCEPT ![i] = @ + ((avg - @) * 3
                                   * gaussian_falloff(Dist2(i, center_x, center_z), radius))
                                   \div (10 * FixedOne)],
                        Tail(reach), center_x, center_z, radius)

\* apply_erode
apply_erode(hs, center_x, center_z, radius) ==
    ErodeReach(hs, BrushReach(center_x, center_z, radius), center_x, center_z, radius)

\* apply_noise; noise_val is the value of the randomly seeded Perlin generator, taken to
\* be the same at every sample of the stroke
apply_noise(hs, center_x, center_z, radius, strength, noise_val) ==
    LET reach == BrushReach(center_x, center_z, radius)
    IN  [i \in 1..Len(hs) |->
           IF \E k \in 1..Len(reach) : reach[k] = i
           THEN clamp01(hs[i]
                        + (((noise_val
                             * gaussian_falloff(Dist2(i, center_x, center_z), radius))
                            \div FixedOne) * strength) \div 100)
           ELSE hs[i]]

\* the brush types apply_brush knows
KnownBrushTypes == {"raise", "lower", "smooth", "flatten", "erode", "noise"}

\* the brush types of the session's requests: three the command knows and one it does not
BrushTypes == {"raise", "lower", "flatten", "paint"}

\* the values the Perlin generator of apply_noise is let to give
NoiseValues == {-10000, 10000}

\* HeightmapChunk::apply_brush
chunk_apply_brush(hs, request, noise_val) ==
    CASE request.brush_type = "raise" ->
            apply_raise(hs, request.center_x, request.center_z, request.radius,
                        request.strength)
      [] request.brush_type = "lower" ->
            apply_lower(hs, request.center_x, request.center_z, request.radius,
                        request.strength)
      [] request.brush_type = "smooth" ->
            apply_smooth(hs, request.center_x, request.center_z, request.radius,
                         request.strength)
      [] request.brush_type = "flatten" ->
            apply_flatten(hs, request.center_x, request.center_z, request.radius,
                          request.strength, 5000)
      [] request.brush_type = "erode" ->
            apply_erode(hs, request.center_x, request.center_z, request.radius)
      [] request.brush_type = "noise" ->
            apply_noise(hs, request.center_x, request.center_z, request.radius,
                        request.strength, noise_val)

BrushRequests ==
    [chunk : {<<0, 0>>, <<9, 9>>}, center_x : {0}, center_z : {0}, radius : {1},
     strength : {50}, brush_type : BrushTypes]

\* chunk.apply_brush on every chunk of the map instead of the addressed one
BrushedEveryChunk(chs, request, noise_val) ==
    [c \in DOMAIN chs |->
        [chs[c] EXCEPT !.heights = chunk_apply_brush(@, request, noise_val)]]

\* the chunk map after chunk.apply_brush on the addressed chunk
BrushedChunks(chs, request, noise_val) ==
    [chs EXCEPT ![request.chunk].heights = chunk_apply_brush(@, request, noise_val)]

\* the body of the command apply_brush: one critical section; the undo stack is not
\* touched
BrushCommand(request, noise_val) ==
    /\ IF request.brush_type \in KnownBrushTypes /\ request.chunk \in DOMAIN chunks
       THEN /\ chunks' = BrushedChunks(chunks, request, noise_val)
            /\ dirty_chunks' = dirty_chunks \cup {request.chunk}
            /\ last' = [op |-> "apply_brush", ok |-> TRUE, coord |-> request.chunk,
                        snap |-> chunks[request.chunk].heights, n |-> last.n + 1,
                        group |-> 0, request |-> request, returned |-> 0]
       ELSE /\ last' = [NoOp EXCEPT !.op = "apply_brush", !.ok = FALSE,
                                    !.coord = request.chunk, !.n = last.n + 1,
                                    !.request = request]
            /\ UNCHANGED <<chunks, dirty_chunks>>
    /\ UNCHANGED <<config, river_network, water_sources, undoVars, hist, chunks0, hydroVars,
                   callVars, erosionVars, terrain_db>>

\* the command apply_brush in the session
ApplyBrush(request) ==
    /\ last.n < MaxBrush
    /\ \E noise_val \in NoiseValues : BrushCommand(request, noise_val)

\* TerrainData::default(), no command running
Init ==
    /\ SessionIdle
    /\ HydroIdle

Next ==
    \/ \E p \in Clients, request \in Requests :
          \E starts \in StartsOf(IF request.use_erosion
                                 THEN request.erosion_iterations * droplets_per_iteration
                                 ELSE 0) :
             GenerateBegin(p, request, starts)
    \/ \E p \in Clients : GenerateCommit(p)
    \/ \E request \in BrushRequests : ApplyBrush(request)

Spec == Init /\ [][Next]_vars

\* C2: every state another command can lock shows config, chunks and rivers written by
\* one and the same generate_terrain invocation, or all three untouched by any
C2_GenerateCommitsAtomically ==
    /\ origin.config = origin.chunks
    /\ origin.rivers \in Clients => origin.chunks = origin.rivers

\* C3: after a successful apply_brush on a chunk the undo stack ends with an entry for
\* that chunk whose delta takes the chunk back to the heights before the brush
C3_BrushIsRecorded ==
    (last.op = "apply_brush" /\ last.ok) =>
        /\ entries # <<>>
        /\ entries[Len(entries)].chunk_coord = last.coord
        /\ ApplyDelta(chunks, dirty_chunks, entries[Len(entries)]).chunks[last.coord].heights
              = last.snap

\* C10: two finished generate_terrain invocations with the same request leave the same
\* heights in every chunk
C10_GenerateIsDeterministic ==
    \A p \in Clients, q \in Clients :
        (calls[p].pc = "done" /\ calls[q].pc = "done"
         /\ calls[p].request = calls[q].request) =>
            \A k \in 1..Len(calls[p].chunks) :
                calls[p].chunks[k].heights = calls[q].chunks[k].heights

\* ---------------------------------------------------------------------------------
\* Brush strokes on chunks whose heights are in [0, 1]
\* ---------------------------------------------------------------------------------

\* the number of strokes of one behaviour
MaxStrokes == 2

\* every sample of a height list is in [0, 1]
HeightsInRange(hs) == \A i \in 1..Len(hs) : hs[i] >= 0 /\ hs[i] <= MaxNormalHeight

\* the height lists the chunks start with: flat low, flat at 0, flat at 1, and a ramp
StrokePatterns ==
    { [i \in 1..(vertex_count * vertex_count) |-> 2000],
      [i \in 1..(vertex_count * vertex_count) |-> 0],
      [i \in 1..(vertex_count * vertex_count) |-> MaxNormalHeight],
      [i \in 1..(vertex_count * vertex_count) |-> Min(MaxNormalHeight, (i - 1) * 4000)] }

\* the strokes: every known brush type with positive and negative strength and both
\* radii on the first chunk of the map and once on the second, one with a type the
\* command does not know and one on a missing chunk
StrokeRequests ==
    [chunk : {<<0, 0>>}, center_x : {0}, center_z : {0}, radius : {1, 2},
     strength : {-50, 100}, brush_type : KnownBrushTypes]
    \cup [chunk : {<<1, 0>>}, center_x : {0}, center_z : {0}, radius : {1},
          strength : {100}, brush_type : KnownBrushTypes]
    \cup [chunk : {<<0, 0>>}, center_x : {0}, center_z : {0}, radius : {1},
          strength : {50}, brush_type : {"paint"}]
    \cup [chunk : {<<9, 9>>}, center_x : {0}, center_z : {0}, radius : {1},
          strength : {50}, brush_type : {"raise"}]

\* a terrain of two chunks with heights in [0, 1], nothing dirty, an empty undo stack
InitBrush ==
    /\ config = DefaultConfig
    /\ \E p \in StrokePatterns : chunks = [c \in HarnessCoords |-> from_heights(c, p)]
    /\ dirty_chunks = {}
    /\ river_network = <<>>
    /\ water_sources = <<>>
    /\ entries = <<>>
    /\ current_group = 0
    /\ hist = <<>>
    /\ last = NoOp
    /\ chunks0 = chunks
    /\ HydroIdle
    /\ CallsIdle
    /\ ErosionIdle
    /\ terrain_db = EmptyDb

\* one apply_brush command on heights that are still in [0, 1]
Stroke(request) ==
    /\ last.n < MaxStrokes
    /\ \A c \in DOMAIN chunks : HeightsInRange(chunks[c].heights)
    /\ \E noise_val \in NoiseValues : BrushCommand(request, noise_val)

NextBrush == \E request \in StrokeRequests : Stroke(request)

SpecBrush == InitBrush /\ [][NextBrush]_vars

\* C11: after a successful brush stroke of any of the six types on a chunk whose heights
\* were all in [0, 1], every height of that chunk is in [0, 1].
C11_BrushKeepsRange ==
    (last.op = "apply_brush" /\ last.ok /\ HeightsInRange(last.snap))
        => HeightsInRange(chunks[last.coord].heights)

\* the newest step was a successful stroke of the given type on heights in [0, 1]
StrokeOf(brush_type) ==
    /\ last.op = "apply_brush" /\ last.ok
    /\ last.request.brush_type = brush_type
    /\ HeightsInRange(last.snap)

\* C12 as stated: a Raise or Lower stroke, with any strength, keeps the heights
\* in [0, 1], a sample at 1 stays at 1 under Raise and a sample at 0 stays at 0 under Lower.
C12_SaturationAnyStrength ==
    /\ (StrokeOf("raise") \/ StrokeOf("lower"))
          => HeightsInRange(chunks[last.coord].heights)
    /\ StrokeOf("raise")
          => \A i \in 1..Len(last.snap) :
                last.snap[i] = MaxNormalHeight
                   => chunks[last.coord].heights[i] = MaxNormalHeight
    /\ StrokeOf("lower")
          => \A i \in 1..Len(last.snap) :
                last.snap[i] = 0 => chunks[last.coord].heights[i] = 0

\* C12 with the strength restricted: a Raise or Lower stroke with any strength keeps the
\* heights in [0, 1]; with a strength of at least 0 a sample at 1 stays at 1 under Raise
\* and a sample at 0 stays at 0 under Lower.
C12_SaturationNonNegativeStrength ==
    /\ (StrokeOf("raise") \/ StrokeOf("lower"))
          => HeightsInRange(chunks[last.coord].heights)
    /\ (StrokeOf("raise") /\ last.request.strength >= 0)
          => \A i \in 1..Len(last.snap) :
                last.snap[i] = MaxNormalHeight
                   => chunks[last.coord].heights[i] = MaxNormalHeight
    /\ (StrokeOf("lower") /\ last.request.strength >= 0)
          => \A i \in 1..Len(last.snap) :
                last.snap[i] = 0 => chunks[last.coord].heights[i] = 0

\* a second Raise with positive strength finds a sample that earlier strokes took to 1
C12_Witness ==
    /\ StrokeOf("raise") /\ last.request.strength > 0 /\ last.n >= 2
    /\ \E i \in 1..Len(last.snap) :
          /\ \E k \in 1..Len(BrushReach(0, 0, last.request.radius)) :
                BrushReach(0, 0, last.request.radius)[k] = i
          /\ chunks0[last.coord].heights[i] < MaxNormalHeight
          /\ last.snap[i] = MaxNormalHeight
          /\ chunks[last.coord].heights[i] = MaxNormalHeight

\* the step is one apply_brush command
BrushStep == last'.op = "apply_brush" /\ last'.n = last.n + 1

\* C20: an apply_brush that names an unknown brush type or a chunk that is not in the
\* map returns an error and leaves the chunk map, every height, the dirty set and the
\* undo stack as they were; a successful one changes nothing but the heights of the
\* addressed chunk and adds that chunk to the dirty set.
C20_BrushFailsCleanly ==
    [][BrushStep =>
         LET request == last'.request
         IN  IF request.brush_type \notin KnownBrushTypes \/ request.chunk \notin DOMAIN chunks
             THEN /\ ~last'.ok
                  /\ chunks' = chunks /\ dirty_chunks' = dirty_chunks
                  /\ entries' = entries /\ current_group' = current_group
             ELSE /\ last'.ok
                  /\ DOMAIN chunks' = DOMAIN chunks
                  /\ \A c \in DOMAIN chunks : c # request.chunk => chunks'[c] = chunks[c]
                  /\ chunks'[request.chunk]
                        = [chunks[request.chunk] EXCEPT
                              !.heights = chunks'[request.chunk].heights]
                  /\ dirty_chunks' = dirty_chunks \cup {request.chunk}
                  /\ entries' = entries /\ current_group' = current_group
                  /\ config' = config /\ river_network' = river_network]_vars

\* a stroke changed chunk (0, 0) alone, and then a stroke on a missing chunk failed
C20_Witness ==
    /\ last.op = "apply_brush" /\ ~last.ok /\ last.n = 2
    /\ last.request.chunk \notin DOMAIN chunks
    /\ dirty_chunks = {<<0, 0>>}
    /\ chunks[<<0, 0>>].heights # chunks0[<<0, 0>>].heights
    /\ chunks[<<1, 0>>] = chunks0[<<1, 0>>]

(***************************************************************************)
(* Erosion, droplet by droplet.  erode_terrain runs its droplets one after *)
(* the other on the buffer itself; erode_terrain_parallel hands them to    *)
(* the rayon pool, where each takes heights_mutex to simulate on the       *)
(* buffer and takes it again to apply the changes it collected.  A step of *)
(* the specification is one turn of a sequential droplet, one lock or      *)
(* unlock, one simulation under the lock, or one applied change.           *)
(***************************************************************************)

\* params.num_droplets
num_droplets == 2

\* the side of the square buffer
ErosionSide == 3

\* the buffers given: a valley between two walls at 1, a ramp, a board of 0 and 1, and
\* flat ground at 1
ErosionBuffers(n) ==
    { [i \in 1..(n * n) |-> IF (i - 1) % n = 1 THEN 5000 ELSE MaxNormalHeight],
      [i \in 1..(n * n) |-> Max(0, MaxNormalHeight - 4000 * ((i - 1) % n)
                                     - 3000 * ((i - 1) \div n))],
      [i \in 1..(n * n) |-> IF i % 2 = 1 THEN MaxNormalHeight ELSE 0],
      [i \in 1..(n * n) |-> MaxNormalHeight] }

\* the cells on whose corner the generator starts a droplet
ErosionStarts == {<<0, 1>>, <<1, 1>>}

InitErosion ==
    /\ CallsIdle
    /\ config = DefaultConfig
    /\ chunks = <<>> /\ chunks0 = <<>> /\ dirty_chunks = {}
    /\ river_network = <<>> /\ water_sources = <<>>
    /\ entries = <<>> /\ current_group = 0
    /\ hist = <<>> /\ last = NoOp
    /\ width = ErosionSide /\ height = ErosionSide
    /\ heights \in ErosionBuffers(ErosionSide)
    /\ heights_in = heights
    /\ open = <<>> /\ closed = {} /\ flow_direction = <<>> /\ accumulation = <<>>
    /\ phase \in {"erode_terrain", "erode_terrain_parallel"}
    /\ heights_mutex = 0
    /\ terrain_db = EmptyDb
    /\ droplets = [i \in 1..num_droplets |->
                     [pc |-> "start", d |-> NewDroplet(0, 0), turns |-> 0]]

\* a lock that never blocks
MutexIgnored(mutex, i) == TRUE

\* heights_mutex.lock() goes through for droplet i
MutexFree(mutex, i) == mutex = 0

\* a write with no bound
unbounded_height(v, delta) == v + delta

\* the write of erode: bounded from below
erode_height(v, delta) == Max(v + delta, 0)

\* the write of deposit: bounded from above
deposit_height(v, delta) == Min(v + delta, MaxNormalHeight)

RECURSIVE WriteInPlace(_, _, _)
\* the loops of erode and of deposit over the brush, on the buffer itself
WriteInPlace(buf, changes, depositing) ==
    IF changes = <<>> THEN buf
    ELSE LET c == Head(changes)
         IN  WriteInPlace([buf EXCEPT ![c.idx + 1] =
                              IF depositing THEN deposit_height(@, c.delta)
                              ELSE erode_height(@, c.delta)],
                          Tail(changes), depositing)

\* erode_terrain: the next droplet of the loop is started by the generator
DropletSpawn(i) ==
    /\ phase = "erode_terrain"
    /\ droplets[i].pc = "start"
    /\ \A j \in 1..(i - 1) : droplets[j].pc = "done"
    /\ \E start \in ErosionStarts :
          droplets' = [droplets EXCEPT ![i] = [pc |-> "running",
                                               d |-> NewDroplet(start[1], start[2]),
                                               turns |-> max_lifetime]]
    /\ UNCHANGED <<terrain_db, terrainVars, undoVars, histVars, hydroVars, callVars, heights_mutex>>

\* erode_terrain: one turn of the loop of simulate_droplet, which erodes or deposits on
\* the buffer itself
DropletStep(i) ==
    /\ phase = "erode_terrain"
    /\ droplets[i].pc = "running"
    /\ LET turn == DropletTurn(droplets[i].d, heights, width, height)
       IN  IF droplets[i].turns = 0 \/ ~turn.alive
           THEN /\ droplets' = [droplets EXCEPT ![i].pc = "done"]
                /\ UNCHANGED heights
           ELSE /\ heights' = WriteInPlace(heights, turn.changes, turn.depositing)
                /\ droplets' = [droplets EXCEPT ![i].d = turn.d, ![i].turns = @ - 1]
    /\ UNCHANGED <<terrain_db, terrainVars, undoVars, histVars, callVars, heights_mutex, width, height,
                   open, closed, flow_direction, accumulation, heights_in, phase>>

\* erode_terrain_parallel: heights_mutex.lock(), before simulating and before applying
DropletLock(i) ==
    /\ phase = "erode_terrain_parallel"
    /\ droplets[i].pc \in {"start", "collected"}
    /\ MutexFree(heights_mutex, i)
    /\ heights_mutex' = i
    /\ droplets' = [droplets EXCEPT ![i].pc = IF @ = "start" THEN "simulating"
                                              ELSE "applying"]
    /\ UNCHANGED <<terrain_db, terrainVars, undoVars, histVars, hydroVars, callVars>>

\* erode_terrain_parallel: simulate_droplet_collect under the lock, which the end of the
\* block releases
DropletSimulate(i) ==
    /\ droplets[i].pc = "simulating"
    /\ \E start \in ErosionStarts :
          LET local_changes ==
                 simulate_droplet_collect(heights, width, height, start[1], start[2])
          IN  droplets' = [droplets EXCEPT
                              ![i].pc = IF local_changes = <<>> THEN "done"
                                        ELSE "collected",
                              ![i].d = [NewDroplet(start[1], start[2]) EXCEPT
                                           !.changes = local_changes]]
    /\ heights_mutex' = 0
    /\ UNCHANGED <<terrain_db, terrainVars, undoVars, histVars, hydroVars, callVars>>

\* erode_terrain_parallel: one turn of the loop that applies the collected changes
DropletApply(i) ==
    /\ droplets[i].pc = "applying"
    /\ droplets[i].d.changes # <<>>
    /\ heights' = ApplyChanges(heights, <<Head(droplets[i].d.changes)>>)
    /\ droplets' = [droplets EXCEPT ![i].d.changes = Tail(@)]
    /\ UNCHANGED <<terrain_db, terrainVars, undoVars, histVars, callVars, heights_mutex, width, height,
                   open, closed, flow_direction, accumulation, heights_in, phase>>

\* erode_terrain_parallel: the guard is dropped after the last change
DropletUnlock(i) ==
    /\ droplets[i].pc = "applying"
    /\ droplets[i].d.changes = <<>>
    /\ heights_mutex' = 0
    /\ droplets' = [droplets EXCEPT ![i].pc = "done"]
    /\ UNCHANGED <<terrain_db, terrainVars, undoVars, histVars, hydroVars, callVars>>

NextErosion ==
    \E i \in 1..num_droplets :
        \/ DropletSpawn(i)
        \/ DropletStep(i)
        \/ DropletLock(i)
        \/ DropletSimulate(i)
        \/ DropletApply(i)
        \/ DropletUnlock(i)

SpecErosion == InitErosion /\ [][NextErosion]_vars

\* C13: while erode_terrain or erode_terrain_parallel runs on a buffer that was in
\* [0, 1], the buffer is in [0, 1] after every droplet turn and after every applied
\* change, so after every batch, whatever the order in which the droplets run.
C13_ErosionKeepsRange == HeightsInRange(heights)

\* the second turn of a sequential droplet in the valley left a sample at 1: the first
\* turn had eroded every sample, so the deposit of the second was cut off at 1
C13_Witness ==
    /\ phase = "erode_terrain"
    /\ heights_in[2] = 5000
    /\ droplets[1].pc = "running" /\ droplets[1].turns = max_lifetime - 2
    /\ \E idx \in 1..Len(heights) :
          heights[idx] = MaxNormalHeight /\ heights_in[idx] = MaxNormalHeight

\* the droplets that hold the buffer: simulating on it or applying to it
Inside == {i \in 1..num_droplets : droplets[i].pc \in {"simulating", "applying"}}

\* C15: in erode_terrain_parallel at most one droplet reads or writes the buffer at a
\* time, and while a droplet applies its list of changes every step is a step of that
\* droplet: no other droplet moves and the buffer changes only by the next change of
\* the list, until the list is empty.
C15_OneDropletAtATime ==
    /\ [](Cardinality(Inside) <= 1)
    /\ [][\A i \in 1..num_droplets :
             droplets[i].pc = "applying"
                => /\ \A j \in 1..num_droplets : j # i => droplets'[j] = droplets[j]
                   /\ heights' # heights
                         => /\ droplets[i].d.changes # <<>>
                            /\ droplets'[i].d.changes = Tail(droplets[i].d.changes)
                   /\ droplets'[i].pc = "done" => droplets[i].d.changes = <<>>]_vars

\* a droplet is in the middle of its list while the other waits with a list of its own
C15_Witness ==
    \E i \in 1..num_droplets : \E j \in 1..num_droplets :
        /\ i # j
        /\ droplets[i].pc = "applying"
        /\ droplets[i].d.changes # <<>>
        /\ heights # heights_in
        /\ droplets[j].pc = "collected"

(***************************************************************************)
(* Water sources (place_water_sources).  The list of sources is kept       *)
(* run-length encoded: sources that were pushed one after the other and    *)
(* are equal make one entry that counts how often the source was pushed.   *)
(* flow_rate is in tenths.                                                 *)
(***************************************************************************)

\* TerrainConfig::default().sea_level, 0.2
sea_level == 2000

\* the least heights of a peak (sea_level + 0.1) and of a ridge (sea_level + 0.05)
peak_level == sea_level + 1000
ridge_level == sea_level + 500

\* Vec::push of one source, times times over
push(sources, x, y, flow_rate, times) ==
    IF times = 0 THEN sources
    ELSE IF sources # <<>>
            /\ sources[Len(sources)].x = x /\ sources[Len(sources)].y = y
            /\ sources[Len(sources)].flow_rate = flow_rate
         THEN [sources EXCEPT ![Len(sources)].times = @ + times]
         ELSE Append(sources, [x |-> x, y |-> y, flow_rate |-> flow_rate, times |-> times])

RECURSIVE sources_len(_)
\* Vec::len of the list of sources
sources_len(sources) ==
    IF sources = <<>> THEN 0 ELSE Head(sources).times + sources_len(Tail(sources))

RECURSIVE PushCells(_, _, _)
\* a loop that pushes every cell of a sequence
PushCells(sources, cells, flow_rate) ==
    IF cells = <<>> THEN sources
    ELSE PushCells(push(sources, Head(cells)[1], Head(cells)[2], flow_rate, 1),
                   Tail(cells), flow_rate)

\* the cells of a sequence whose height is above level
CellsAbove(cells, buf, w, level) ==
    SelectSeq(cells, LAMBDA c : buf[c[2] * w + c[1] + 1] > level)

\* "random": count cells drawn from the world, every one a source
place_random(draws) == PushCells(<<>>, draws, 10)

\* "peaks": the interior cells above their four neighbours and above peak_level, by
\* falling height (a stable sort), the first count of them
place_peaks(count, buf, w, h) ==
    LET interior == [k \in 1..(IF w < 3 \/ h < 3 THEN 0 ELSE (w - 2) * (h - 2)) |->
                        <<1 + ((k - 1) % (w - 2)), 1 + ((k - 1) \div (w - 2))>>]
        at(c) == buf[c[2] * w + c[1] + 1]
        is_peak(c) ==
            /\ at(c) > at(<<c[1] - 1, c[2]>>) /\ at(c) > at(<<c[1] + 1, c[2]>>)
            /\ at(c) > at(<<c[1], c[2] - 1>>) /\ at(c) > at(<<c[1], c[2] + 1>>)
            /\ at(c) > peak_level
        peak_candidates == SelectSeq(interior, is_peak)
        n == Len(peak_candidates)
        before(i, j) == \/ at(peak_candidates[i]) > at(peak_candidates[j])
                        \/ at(peak_candidates[i]) = at(peak_candidates[j]) /\ i < j
        sorted == [r \in 1..n |->
                     peak_candidates[CHOOSE i \in 1..n :
                                        Cardinality({j \in 1..n : before(j, i)}) = r - 1]]
    IN  [k \in 1..Min(count, n) |->
            [x |-> sorted[k][1], y |-> sorted[k][2], flow_rate |-> 20, times |-> 1]]

\* "ridges": count interior cells drawn, those above ridge_level are sources
place_ridges(draws, buf, w) ==
    PushCells(<<>>, CellsAbove(draws, buf, w, ridge_level), 15)

\* the number of bits of a positive number
RECURSIVE BitLen(_)
BitLen(n) == IF n = 0 THEN 0 ELSE 1 + BitLen(n \div 2)

\* count as f32: the nearest number of 24 significant bits, a tie to the even one
as_f32(n) ==
    IF n < 2^24 THEN n
    ELSE LET ulp == 2^(BitLen(n) - 24)
             q == n \div ulp
             r == n % ulp
         IN  IF 2 * r > ulp \/ (2 * r = ulp /\ q % 2 = 1) THEN (q + 1) * ulp ELSE q * ulp

\* f32::sqrt(n) as usize for a whole n below 2^30: the root rounded to the nearest f32
\* and then cut off.  The f32 next below m = isqrt(n) + 1 is m - 2^(e - 23) where
\* 2^e < m <= 2^(e + 1), so the root is rounded up to m when it is nearer to m than to
\* that number, which is when (m^2 - n) * 2^(23 - e) < m.
sqrt_as_usize(n) ==
    LET m == isqrt(n) + 1
        e == BitLen(m - 1) - 1
    IN  IF e >= 12 /\ (m * m - n) * 2^(23 - e) < m THEN m ELSE m - 1

\* (count as f32).sqrt() as usize
grid_size_of(count) == sqrt_as_usize(as_f32(count))

RECURSIVE Repeat(_, _, _)
\* the sequence row, times times over, appended to sources
Repeat(sources, row, times) ==
    IF times = 0 THEN sources ELSE Repeat(sources \o row, row, times - 1)

\* "uniform": the loops over gy and gx in 1..=grid_size, a source wherever the height is
\* above sea_level.  With a step of 0 all columns (or rows) are the same cell, so that
\* the grid_size pushes of a row (or the grid_size rows) are written down at once.
place_uniform(count, buf, w, h) ==
    LET grid_size == grid_size_of(count)
        step_x == w \div (grid_size + 1)
        step_y == h \div (grid_size + 1)
        above(x, y) == buf[y * w + x + 1] > sea_level
        row(y) == IF step_x = 0
                  THEN (IF above(0, y) THEN push(<<>>, 0, y, 10, grid_size) ELSE <<>>)
                  ELSE PushCells(<<>>, CellsAbove([gx \in 1..grid_size |->
                                                      <<gx * step_x, y>>],
                                                   buf, w, sea_level), 10)
        RECURSIVE rows(_, _)
        rows(sources, gy) ==
            IF gy > grid_size THEN sources ELSE rows(sources \o row(gy * step_y), gy + 1)
    IN  IF grid_size = 0 THEN <<>>
        ELSE IF step_y > 0 THEN rows(<<>>, 1)
        ELSE IF row(0) = <<>> THEN <<>>
        ELSE IF Len(row(0)) = 1
             THEN push(<<>>, row(0)[1].x, 0, 10, row(0)[1].times * grid_size)
             ELSE Repeat(<<>>, row(0), grid_size)

\* the strategies place_water_sources knows
SourceTypes == {"random", "peaks", "ridges", "uniform"}

\* place_water_sources panics: an empty range for the random generator, a subtraction
\* from 0, or an index beyond the heightmap
PlacePanics(count, source_type, w, h) ==
    CASE source_type = "random" -> count > 0 /\ (w = 0 \/ h = 0)
      [] source_type = "peaks" -> w = 0 \/ h = 0
      [] source_type = "ridges" -> count > 0 /\ (w <= 2 \/ h <= 2)
      [] source_type = "uniform" -> grid_size_of(count) > 0 /\ (w = 0 \/ h = 0)
      [] OTHER -> FALSE

\* the sources of one call; draws are the cells the random generator gives
placed_sources(count, source_type, draws, buf, w, h) ==
    CASE source_type = "random" -> place_random(draws)
      [] source_type = "peaks" -> place_peaks(count, buf, w, h)
      [] source_type = "ridges" -> place_ridges(draws, buf, w)
      [] source_type = "uniform" -> place_uniform(count, buf, w, h)

(***************************************************************************)
(* The passes over a terrain that is there: apply_weathering and           *)
(* simulate_hydrology.  Each holds the session lock from its first line to *)
(* its last, so each is one step.                                          *)
(***************************************************************************)

\* the passes of one behaviour
MaxPasses == 2

\* heightmaps in [0, 1] of the world: a plateau at 1 with a pit in it, a pit in ground
\* at one half, two generated slopes, a valley that rises to the south, and a plateau
\* at 1 with a dent
PassBuffers(w, h) ==
    { [g \in 1..(w * h) |-> IF (g - 1) % w = 1 /\ (g - 1) \div w = 1
                            THEN 0 ELSE MaxNormalHeight],
      [g \in 1..(w * h) |-> IF (g - 1) % w = 1 /\ (g - 1) \div w = 1 THEN 2000 ELSE 5000],
      [g \in 1..(w * h) |-> SampleHeight(1, (g - 1) % w, (g - 1) \div w)],
      [g \in 1..(w * h) |-> SampleHeight(2, (g - 1) % w, (g - 1) \div w)],
      [g \in 1..(w * h) |-> IF (g - 1) % w = 1 THEN 3000 + 2000 * ((g - 1) \div w)
                            ELSE 8000],
      [g \in 1..(w * h) |-> IF (g - 1) % w = 1 /\ (g - 1) \div w = 2
                            THEN 9000 ELSE MaxNormalHeight] }

\* the chunks of a world whose heightmap is buf: every chunk holds the samples of its
\* square, and 0 where the square leaves the world
ChunksOf(buf, cfg) ==
    [c \in (0..(chunk_count_x(cfg) - 1)) \X (0..(chunk_count_z(cfg) - 1)) |->
        from_heights(c, [i \in 1..(vertex_count * vertex_count) |->
                           IF GlobalX(c, i) < cfg.world_width
                              /\ GlobalZ(c, i) < cfg.world_height
                           THEN buf[GlobalZ(c, i) * cfg.world_width + GlobalX(c, i) + 1]
                           ELSE 0])]

\* orders in which the HashMap of chunks is iterated: by rows from the first chunk, and
\* the same backwards
ChunkOrders(chs, cfg) ==
    LET n == chunk_count_x(cfg) * chunk_count_z(cfg)
        rows == [k \in 1..n |-> chs[<<(k - 1) % chunk_count_x(cfg),
                                      (k - 1) \div chunk_count_x(cfg)>>]]
    IN  {rows, [k \in 1..n |-> rows[n + 1 - k]]}

InitPasses ==
    /\ CallsIdle
    /\ ErosionIdle
    /\ terrain_db = EmptyDb
    /\ HydroIdle
    /\ config = TerrainConfig_new(WorldWidth, WorldHeight, 1)
    /\ chunks \in {ChunksOf(buf, config) : buf \in PassBuffers(WorldWidth, WorldHeight)}
    /\ chunks0 = chunks
    /\ dirty_chunks = {}
    /\ river_network = <<>>
    /\ water_sources \in {<<>>, push(<<>>, 1, 1, 10, 1)}
    /\ entries = <<>> /\ current_group = 0
    /\ hist = <<>> /\ last = NoOp

\* the end of both passes: flow, rivers, the heightmap copied into every chunk, every
\* chunk dirty, the rivers stored
PassUpdate(buf, threshold) ==
    LET w == config.world_width
        h == config.world_height
    IN  \E dirs \in {calculate_flow_direction(buf, w, h)} :
        \E acc \in {calculate_flow_accumulation(buf, dirs, w, h)} :
           /\ chunks' = [c \in DOMAIN chunks |->
                           [chunks[c] EXCEPT
                               !.heights = CopyBack(chunks[c], buf, acc, w, h).heights]]
           /\ dirty_chunks' = dirty_chunks \cup DOMAIN chunks
           /\ river_network' = extract_rivers(acc, dirs, w, h, threshold)

\* the command apply_weathering
ApplyWeathering(iterations, starts, order) ==
    /\ last.n < MaxPasses
    /\ LET w == config.world_width
           h == config.world_height
           filled == fill_depressions(FlattenChunks([g \in 1..(w * h) |-> 0], order, w, h),
                                      w, h)
       IN  \E eroded \in {erode_terrain_parallel(filled, w, h, starts)} :
              PassUpdate(eroded, generate_river_threshold)
    /\ last' = [NoOp EXCEPT !.op = "apply_weathering", !.n = last.n + 1]
    /\ UNCHANGED <<config, water_sources, undoVars, hist, chunks0, hydroVars, callVars,
                   erosionVars, terrain_db>>

\* the command simulate_hydrology, with steps = 1.  In a world without cells the first
\* droplet asks the random generator for a number of the empty range 0.0..0.0, which
\* panics before anything is written.
SimulateHydrology(enable_lakes, starts, order) ==
    /\ last.n < MaxPasses
    /\ IF water_sources = <<>>
       THEN /\ last' = [NoOp EXCEPT !.op = "simulate_hydrology", !.ok = FALSE,
                                    !.n = last.n + 1]
            /\ UNCHANGED <<chunks, dirty_chunks, river_network>>
       ELSE IF config.world_width = 0 \/ config.world_height = 0
       THEN /\ last' = [NoOp EXCEPT !.op = "simulate_hydrology", !.ok = FALSE,
                                    !.n = last.n + 1]
            /\ UNCHANGED <<chunks, dirty_chunks, river_network>>
       ELSE /\ LET w == config.world_width
                   h == config.world_height
                   eroded == erode_terrain_parallel(
                                FlattenChunks([g \in 1..(w * h) |-> 0], order, w, h),
                                w, h, starts)
               IN  \E final \in {IF enable_lakes THEN fill_depressions(eroded, w, h)
                                  ELSE eroded} :
                      PassUpdate(final, (generate_river_threshold + 1) \div 2)
            /\ last' = [NoOp EXCEPT !.op = "simulate_hydrology", !.n = last.n + 1]
    /\ UNCHANGED <<config, water_sources, undoVars, hist, chunks0, hydroVars, callVars,
                   erosionVars, terrain_db>>

NextPasses ==
    \/ \E iterations \in 0..1 :
          \E starts \in StartsOf(iterations * droplets_per_iteration) :
             \E order \in ChunkOrders(chunks, config) :
                ApplyWeathering(iterations, starts, order)
    \/ \E enable_lakes \in BOOLEAN :
          \E starts \in StartsOf(sources_len(water_sources) * droplets_per_iteration) :
             \E order \in ChunkOrders(chunks, config) :
                SimulateHydrology(enable_lakes, starts, order)

SpecPasses == InitPasses /\ [][NextPasses]_vars

\* C14: after apply_weathering and after simulate_hydrology, with lakes or without, on
\* chunks whose heights were all in [0, 1], the heights of every chunk are in [0, 1].
C14_PassesKeepRange ==
    \A c \in DOMAIN chunks : HeightsInRange(chunks[c].heights)

\* C16: after a generate_terrain with erosion the flow_accumulation of every chunk,
\* the chunks of the last chunk row and column included, has one value for each height
\* of the chunk: vertex_count squared values, value i for the vertex of height i.  The
\* formula states the lengths, without which the indices cannot agree.
C16_FlowDataParallel ==
    \A c \in DOMAIN chunks :
        chunks[c].flow_accumulation.some
           => /\ Len(chunks[c].heights) = vertex_count * vertex_count
              /\ Len(chunks[c].flow_accumulation.data) = Len(chunks[c].heights)

\* C17: when every generate_terrain has returned and the stored chunks are those of the
\* call that stored last, the stored river network is the one that call produced; for a
\* call without erosion, which produces no river, no river of the world that was stored
\* before remains.
C17_RiversOfLastGenerate ==
    \A p \in Clients :
        (/\ \A q \in Clients : calls[q].pc \in {"idle", "done"}
         /\ calls[p].pc = "done" /\ origin.chunks = p
         /\ ~calls[p].request.use_erosion)
           => river_network = calls[p].rivers

\* C18: the undo stack never holds more than max_entries entries; a record that finds
\* the stack full drops exactly the oldest entry, and after every record the stack is
\* the most recent entries, at most max_entries of them, in the order they were
\* recorded, the new entry last.
C18_StackBounded ==
    /\ [](Len(entries) <= max_entries)
    /\ [][(last'.op = "record" /\ last'.n = last.n + 1)
            => LET n == Len(entries)
               IN  /\ IF n < max_entries
                      THEN /\ Len(entries') = n + 1
                           /\ SubSeq(entries', 1, n) = entries
                      ELSE /\ Len(entries') = max_entries
                           /\ SubSeq(entries', 1, max_entries - 1) = SubSeq(entries, 2, n)
                   /\ entries'[Len(entries')].chunk_coord = last'.coord
                   /\ entries'[Len(entries')].group_id = current_group]_vars

\* a record found the stack full: more edits are outstanding than the stack holds
C18_Witness ==
    /\ last.op = "record"
    /\ Len(entries) = max_entries
    /\ Len(hist) > max_entries

(***************************************************************************)
(* Recorded edits, undo and the apply_brush command on the same chunks.    *)
(* A height is held here as its fixed-point integer, and the XOR of the    *)
(* undo entry is taken on that integer: as on the f32 words, applying the  *)
(* delta of (after, before) to a value gives before exactly when the value *)
(* is after.                                                               *)
(***************************************************************************)

\* the values the recorded edits write
EditHeights == {0, 5000}

\* the strokes of the command between the recorded edits
EditStrokes ==
    {r \in StrokeRequests : r.brush_type \in {"raise", "smooth"} /\ r.radius = 1
                            /\ r.strength > 0}

NextEdits ==
    \/ \E c \in HarnessCoords, i \in {1, vertex_count * vertex_count}, v \in EditHeights :
          EditRecord(c, i, v)
    \/ \E request \in EditStrokes : Stroke(request)
    \/ Undo

SpecEdits == InitBrush /\ [][NextEdits]_vars

\* C19: in every state, applying the newest undo entry to the current heights of its
\* chunk gives the heights the chunk had just before the edit that entry recorded.
C19_NewestEntryRestores ==
    entries # <<>>
       => LET entry == entries[Len(entries)]
          IN  /\ entry.chunk_coord \in DOMAIN chunks
              /\ ApplyDelta(chunks, dirty_chunks, entry).chunks[entry.chunk_coord].heights
                    = hist[Len(hist)].before

(***************************************************************************)
(* The commands of a session on a terrain that is there: generate_terrain  *)
(* with worlds of any size, place_water_sources and simulate_hydrology.    *)
(***************************************************************************)

\* the worlds requested: none of the checks of generate_terrain looks at width or height
CommandRequests ==
    [width : {0, WorldWidth}, height : {0, WorldHeight}, seed : {1},
     use_erosion : BOOLEAN, erosion_iterations : {1}]

\* the heightmaps at the start: a hill on land, the generated slope, and a shore whose
\* west is under water
CommandBuffers(w, h) ==
    { [g \in 1..(w * h) |-> IF (g - 1) % w = 1 /\ (g - 1) \div w = 1 THEN 9000 ELSE 5000],
      [g \in 1..(w * h) |-> SampleHeight(1, (g - 1) % w, (g - 1) \div w)],
      [g \in 1..(w * h) |-> IF (g - 1) % w = 0 THEN 1000 ELSE 2600] }

\* the numbers of sources asked for; 16785407 is the least count whose f32 has a root
\* that rounds up
PlaceCounts == {0, 1, 2, 4, 16785407}

\* the sources simulate_hydrology is run with at most
MaxSources == 1

\* the cells the random generator is let to draw
DrawCells == {<<0, 0>>, <<1, 1>>}

\* the sequences of cells the random generator can give a call
DrawsOf(count, source_type, w, h) ==
    IF PlacePanics(count, source_type, w, h) THEN {<<>>}
    ELSE CASE source_type = "random" ->
                [1..count -> {c \in DrawCells : c[1] < w /\ c[2] < h}]
           [] source_type = "ridges" ->
                [1..count -> {c \in DrawCells : /\ 1 <= c[1] /\ c[1] < w - 1
                                                /\ 1 <= c[2] /\ c[2] < h - 1}]
           [] OTHER -> {<<>>}

\* the calls of place_water_sources: the strategies that draw with the small counts
PlaceRequests ==
    [count : PlaceCounts, source_type : {"peaks", "uniform", "springs"}]
    \cup [count : {c \in PlaceCounts : c <= MaxSources}, source_type : {"random", "ridges"}]

InitCommands ==
    /\ CallsIdle
    /\ ErosionIdle
    /\ terrain_db = EmptyDb
    /\ HydroIdle
    /\ config = TerrainConfig_new(WorldWidth, WorldHeight, 1)
    /\ chunks \in {ChunksOf(buf, config) : buf \in CommandBuffers(WorldWidth, WorldHeight)}
    /\ chunks0 = chunks
    /\ dirty_chunks = {}
    /\ river_network = <<>>
    /\ water_sources = <<>>
    /\ entries = <<>> /\ current_group = 0
    /\ hist = <<>> /\ last = NoOp

\* generate_terrain up to its first lock.  With use_erosion and a world without cells
\* fill_depressions reads heights[0] of an empty heightmap (or subtracts 1 from 0), which
\* panics; the invocation ends there and has written nothing.
GenerateRequest(p, request, starts) ==
    IF request.use_erosion /\ (request.width = 0 \/ request.height = 0)
    THEN /\ calls[p].pc = "idle"
         /\ calls' = [calls EXCEPT ![p] = [NoCall EXCEPT !.pc = "panicked",
                                                         !.request = request]]
         /\ last' = [NoOp EXCEPT !.op = "generate", !.ok = FALSE, !.n = last.n]
         /\ UNCHANGED <<terrainVars, origin, undoVars, hist, chunks0, hydroVars, erosionVars, terrain_db>>
    ELSE GenerateBegin(p, request, starts)

\* the command place_water_sources
PlaceWaterSources(request, draws, order) ==
    /\ last.n < MaxPasses
    /\ LET w == config.world_width
           h == config.world_height
           count == request.count
           source_type == request.source_type
       IN  IF source_type \notin SourceTypes \/ PlacePanics(count, source_type, w, h)
           THEN /\ last' = [NoOp EXCEPT !.op = "place_water_sources", !.ok = FALSE,
                                        !.n = last.n + 1, !.request = request]
                /\ UNCHANGED water_sources
           ELSE \E sources \in {placed_sources(count, source_type, draws,
                                   FlattenChunks([g \in 1..(w * h) |-> 0], order, w, h),
                                   w, h)} :
                   /\ water_sources' = sources
                   /\ last' = [NoOp EXCEPT !.op = "place_water_sources",
                                           !.n = last.n + 1, !.request = request,
                                           !.returned = sources_len(sources)]
    /\ UNCHANGED <<config, chunks, dirty_chunks, river_network, undoVars, hist, chunks0,
                   hydroVars, callVars, erosionVars, terrain_db>>

NextCommands ==
    \/ \E p \in {"a"}, request \in CommandRequests :
          \E starts \in StartsOf(IF request.use_erosion
                                 THEN request.erosion_iterations * droplets_per_iteration
                                 ELSE 0) :
             GenerateRequest(p, request, starts)
    \/ \E p \in {"a"} : GenerateCommit(p)
    \/ \E request \in PlaceRequests :
          \E draws \in DrawsOf(request.count, request.source_type,
                               config.world_width, config.world_height) :
             \E order \in ChunkOrders(chunks, config) :
                PlaceWaterSources(request, draws, order)
    \/ /\ sources_len(water_sources) <= MaxSources
       /\ \E enable_lakes \in BOOLEAN :
             \E starts \in StartsOf(sources_len(water_sources) * droplets_per_iteration) :
                \E order \in ChunkOrders(chunks, config) :
                   SimulateHydrology(enable_lakes, starts, order)

SpecCommands == InitCommands /\ [][NextCommands]_vars

\* a step of simulate_hydrology
SimulateStep == last'.op = "simulate_hydrology" /\ last'.n = last.n + 1

\* the rivers of the terrain the chunks hold
RiversOf(chs, cfg, threshold) ==
    LET w == cfg.world_width
        h == cfg.world_height
        buf == FlattenChunks([g \in 1..(w * h) |-> 0],
                             CHOOSE order \in ChunkOrders(chs, cfg) : TRUE, w, h)
        dirs == calculate_flow_direction(buf, w, h)
    IN  extract_rivers(calculate_flow_accumulation(buf, dirs, w, h), dirs, w, h, threshold)

\* C21: simulate_hydrology returns an error exactly when the list of water sources is
\* empty, and then chunks, dirty set and river network are as before; with a list that
\* is not empty it succeeds, every chunk is dirty and the river network is that of the
\* new heights.
C21_HydrologyNeedsSources ==
    [][SimulateStep =>
          IF water_sources = <<>>
          THEN ~last'.ok /\ UNCHANGED <<chunks, dirty_chunks, river_network>>
          ELSE /\ last'.ok
               /\ DOMAIN chunks \subseteq dirty_chunks'
               /\ river_network' = RiversOf(chunks', config,
                                            (generate_river_threshold + 1) \div 2)]_vars

\* C22: a generate_terrain whose request has width 0 or height 0 is rejected: it never
\* gets to write config, chunks or rivers, so the world of the session always has cells.
C22_ZeroSizeRejected ==
    /\ \A p \in Clients :
          (calls[p].pc # "idle" /\ (calls[p].request.width = 0 \/ calls[p].request.height = 0))
             => /\ calls[p].pc \notin {"commit", "done"}
                /\ p \notin {origin.config, origin.chunks, origin.rivers}
    /\ config.world_width > 0 /\ config.world_height > 0

\* a step of place_water_sources
PlaceStep == last'.op = "place_water_sources" /\ last'.n = last.n + 1

\* C23: after a successful place_water_sources(count, strategy) the returned number is
\* the length of the list of sources, it is at most count (the list holds the sources of
\* this call only), and every source is a cell of the world; with a strategy that is
\* not known the call fails and the list is as before.
C23_SourcesReplaced ==
    [][PlaceStep =>
          /\ last'.ok =>
                /\ last'.returned = sources_len(water_sources')
                /\ last'.returned <= last'.request.count
                /\ \A k \in 1..Len(water_sources') :
                      /\ water_sources'[k].x \in 0..(config.world_width - 1)
                      /\ water_sources'[k].y \in 0..(config.world_height - 1)
          /\ last'.request.source_type \notin SourceTypes =>
                ~last'.ok /\ UNCHANGED water_sources]_vars

(***************************************************************************)
(* Biomes (biomes.rs).  Elevation and sea level are in units of 0.0001,    *)
(* temperature in degrees, moisture in hundredths.  NaN is the f32 that    *)
(* is neither less nor greater than any number.                            *)
(***************************************************************************)
NaN == 1000000

\* < and > of f32
f32_lt(a, b) == a # NaN /\ b # NaN /\ a < b
f32_gt(a, b) == a # NaN /\ b # NaN /\ a > b

\* + of f32, the summands being multiples of 0.0001
f32_add(a, b) == IF a = NaN \/ b = NaN THEN NaN ELSE a + b

\* the Whittaker diagram of classify_biome
whittaker(temperature, moisture) ==
    IF f32_lt(temperature, -10) THEN "Tundra"
    ELSE IF f32_lt(temperature, 0)
         THEN (IF f32_gt(moisture, 60) THEN "BorealForest" ELSE "Tundra")
    ELSE IF f32_lt(temperature, 15)
         THEN (IF f32_gt(moisture, 70) THEN "TemperateForest"
               ELSE IF f32_gt(moisture, 30) THEN "Grassland" ELSE "Desert")
    ELSE IF f32_gt(moisture, 70) THEN "TropicalRainforest"
         ELSE IF f32_gt(moisture, 40) THEN "Savanna" ELSE "Desert"

\* classify_biome with the rule of the high elevations first
classify_high_first(elevation, temperature, moisture, sea) ==
    IF f32_gt(elevation, 8500)
    THEN (IF f32_lt(temperature, 0) THEN "Glacier" ELSE "Alpine")
    ELSE IF f32_lt(elevation, sea) THEN "Ocean"
    ELSE IF f32_lt(elevation, f32_add(sea, 200)) THEN "Coast"
    ELSE whittaker(temperature, moisture)

\* classify_biome
classify_biome(elevation, temperature, moisture, sea) ==
    IF f32_lt(elevation, sea) THEN "Ocean"
    ELSE IF f32_lt(elevation, f32_add(sea, 200)) THEN "Coast"
    ELSE IF f32_gt(elevation, 8500)
         THEN (IF f32_lt(temperature, 0) THEN "Glacier" ELSE "Alpine")
    ELSE whittaker(temperature, moisture)

\* the arguments classify_biome is called with: elevations on both sides of every sea
\* level, of the coast and of 0.85, temperatures and moistures on both sides of every
\* border of the diagram
BiomeInputs ==
    [elevation : {0, 1999, 2000, 2199, 2200, 5000, 8399, 8400, 8500, 8501, 8599, 8600,
                  9499, 9500, 9699, 9700, 10000, NaN},
     temperature : {-11, -10, -1, 0, 14, 15, 30, NaN},
     moisture : {30, 31, 40, 41, 60, 61, 70, 71, NaN},
     sea_level : {sea_level, 8400, 9500}]

InitBiome ==
    /\ CallsIdle
    /\ ErosionIdle
    /\ terrain_db = EmptyDb
    /\ HydroIdle
    /\ config = DefaultConfig
    /\ chunks = <<>> /\ chunks0 = <<>> /\ dirty_chunks = {}
    /\ river_network = <<>> /\ water_sources = <<>>
    /\ entries = <<>> /\ current_group = 0
    /\ hist = <<>>
    /\ \E request \in BiomeInputs : last = [NoOp EXCEPT !.request = request]

\* one call of classify_biome
ClassifyBiome ==
    /\ last.op = "none"
    /\ last' = [last EXCEPT !.op = "classify_biome",
                            !.returned = classify_biome(last.request.elevation,
                                                        last.request.temperature,
                                                        last.request.moisture,
                                                        last.request.sea_level)]
    /\ UNCHANGED <<terrainVars, undoVars, hist, chunks0, hydroVars, callVars, erosionVars, terrain_db>>

SpecBiome == InitBiome /\ [][ClassifyBiome]_vars

\* C24: for every temperature and moisture an elevation below the sea level is Ocean
\* and an elevation from the sea level to less than 0.02 above it is Coast, also where
\* the elevation is above 0.85.
C24_SeaAndCoastFirst ==
    last.op = "classify_biome" =>
        LET elevation == last.request.elevation
            sea == last.request.sea_level
        IN  /\ (elevation # NaN /\ elevation < sea) => last.returned = "Ocean"
            /\ (elevation # NaN /\ sea <= elevation /\ elevation < sea + 200)
                  => last.returned = "Coast"

\* an ocean and a coast above 0.85, in a climate whose table entry is another biome
C24_Witness ==
    /\ last.op = "classify_biome"
    /\ last.request.elevation > 8500 /\ last.request.elevation # NaN
    /\ last.returned = "Coast"
    /\ last.request.temperature = -1
    /\ whittaker(last.request.temperature, last.request.moisture) = "BorealForest"

(***************************************************************************)
(* terrain.db.  A table is the sequence of its rows.  INSERT OR REPLACE    *)
(* deletes the rows that conflict on the primary key and adds the new row. *)
(* A BLOB is the sequence of its bytes; an f32 that goes into a BLOB goes  *)
(* as the four bytes of the 32-bit word the model holds for it.            *)
(***************************************************************************)
\* INSERT OR REPLACE into a table whose primary key is the columns key_columns
insert_or_replace(rows, row, key_columns) ==
    Append(SelectSeq(rows, LAMBDA r : \E column \in key_columns : r[column] # row[column]),
           row)

\* PRIMARY KEY (chunk_x, chunk_z, lod)
chunk_key == {"chunk_x", "chunk_z", "lod"}

\* serde_json::to_string of a TerrainConfig: the members in the order of the struct
to_json(cfg) ==
    <<<<"world_width", cfg.world_width>>, <<"world_height", cfg.world_height>>,
      <<"seed", cfg.seed>>>>

\* serde_json::from_str for TerrainConfig
from_json(json) ==
    LET member(name) == {k \in 1..Len(json) : json[k][1] = name}
    IN  IF \E name \in {"world_width", "world_height", "seed"} : member(name) = {}
        THEN [ok |-> FALSE, config |-> DefaultConfig]
        ELSE [ok |-> TRUE,
              config |-> [world_width |-> json[Only(member("world_width"))][2],
                          world_height |-> json[Only(member("world_height"))][2],
                          seed |-> json[Only(member("seed"))][2]]]

\* TerrainDatabase::save_config
save_config(db, cfg) ==
    [db EXCEPT !.terrain_config =
        insert_or_replace(@, [key |-> "config", value |-> to_json(cfg)], {"key"})]

\* TerrainDatabase::load_config
load_config(db) ==
    LET found == SelectSeq(db.terrain_config, LAMBDA r : r.key = "config")
    IN  IF found = <<>> THEN [ok |-> FALSE, config |-> DefaultConfig]
        ELSE from_json(found[1].value)

\* the words of a BLOB read with the most significant byte first
words_of_be(bytes) ==
    LET groups == chunks_exact4(bytes)
    IN  [k \in 1..Len(groups) |-> u32_from_be_bytes(groups[k])]

\* the words of a BLOB of f32s: chunks_exact(4) and f32::from_le_bytes
words_of(bytes) ==
    LET groups == chunks_exact4(bytes)
    IN  [k \in 1..Len(groups) |-> u32_from_le_bytes(groups[k])]

\* TerrainDatabase::save_chunk
save_chunk(db, chunk) ==
    LET heights_bytes == FlatBytes(chunk.heights)
        compressed == zstd_encode_all(heights_bytes)
        flow_compressed ==
            IF chunk.flow_accumulation.some
            THEN [some |-> TRUE,
                  data |-> zstd_encode_all(FlatBytes(chunk.flow_accumulation.data)).data]
            ELSE NoFlow
        biome_compressed == chunk.biome_ids
    IN  [db EXCEPT !.terrain_chunks =
            insert_or_replace(@, [chunk_x |-> chunk.coord[1], chunk_z |-> chunk.coord[2],
                                  lod |-> chunk.lod, data |-> compressed.data,
                                  flow_data |-> flow_compressed,
                                  biome_data |-> biome_compressed],
                              chunk_key)]

\* the rows SELECT ... WHERE chunk_x = ?1 AND chunk_z = ?2 AND lod = ?3 finds
chunk_rows(db, chunk_x, chunk_z, lod) ==
    SelectSeq(db.terrain_chunks,
              LAMBDA r : r.chunk_x = chunk_x /\ r.chunk_z = chunk_z /\ r.lod = lod)

NoChunk == [ok |-> FALSE, chunk |-> from_heights(<<0, 0>>, <<>>)]

\* TerrainDatabase::load_chunk
load_chunk(db, chunk_x, chunk_z, lod) ==
    LET found == chunk_rows(db, chunk_x, chunk_z, lod) IN
    IF found = <<>> THEN NoChunk
    ELSE LET heights_bytes == zstd_decode_all(found[1].data)
             flow_bytes == zstd_decode_all(found[1].flow_data.data)
         IN  IF ~heights_bytes.ok \/ (found[1].flow_data.some /\ ~flow_bytes.ok) THEN NoChunk
             ELSE [ok |-> TRUE,
                   chunk |-> [coord |-> <<chunk_x, chunk_z>>,
                              heights |-> words_of(heights_bytes.data),
                              lod |-> lod,
                              flow_accumulation |->
                                  IF found[1].flow_data.some
                                  THEN [some |-> TRUE, data |-> words_of(flow_bytes.data)]
                                  ELSE NoFlow,
                              biome_ids |-> found[1].biome_data]]

\* TerrainDatabase::chunk_exists
chunk_exists(db, chunk_x, chunk_z, lod) == Len(chunk_rows(db, chunk_x, chunk_z, lod)) > 0

\* bincode::serialize of a Vec<(f32, f32)>: the length as a u64, then the f32s
bincode_serialize(path) ==
    to_le_bytes(Len(path)) \o <<0, 0, 0, 0>>
    \o FlatBytes([k \in 1..(2 * Len(path)) |-> path[(k + 1) \div 2][2 - (k % 2)]])

\* bincode::deserialize to a Vec<(f32, f32)>
bincode_deserialize(bytes) ==
    IF Len(bytes) < 8 THEN [ok |-> FALSE, path |-> <<>>]
    ELSE LET n == u32_from_le_bytes(SubSeq(bytes, 1, 4))
             words == words_of(SubSeq(bytes, 9, Len(bytes)))
         IN  IF SubSeq(bytes, 5, 8) # <<0, 0, 0, 0>> \/ n < 0 \/ Len(bytes) < 8 + 8 * n
             THEN [ok |-> FALSE, path |-> <<>>]
             ELSE [ok |-> TRUE,
                   path |-> [k \in 1..n |-> <<words[2 * k - 1], words[2 * k]>>]]

\* TerrainDatabase::save_river_segment
save_river_segment(db, segment) ==
    [db EXCEPT !.river_segments =
        insert_or_replace(@, [id |-> segment.id, path |-> bincode_serialize(segment.path),
                              strahler_order |-> segment.strahler_order,
                              width_meters |-> segment.width_meters],
                          {"id"})]

\* the rows of river_segments in the order of the table scan, which is the order of id
RECURSIVE ScanById(_)
ScanById(rows) ==
    IF rows = <<>> THEN <<>>
    ELSE LET k == CHOOSE j \in 1..Len(rows) : \A m \in 1..Len(rows) : rows[j].id <= rows[m].id
         IN  <<rows[k]>> \o ScanById(SubSeq(rows, 1, k - 1) \o SubSeq(rows, k + 1, Len(rows)))

\* TerrainDatabase::load_river_segments
load_river_segments(db) ==
    LET rows == ScanById(db.river_segments)
        paths == [k \in 1..Len(rows) |-> bincode_deserialize(rows[k].path)]
    IN  IF \E k \in 1..Len(rows) : ~paths[k].ok THEN [ok |-> FALSE, segments |-> <<>>]
        ELSE [ok |-> TRUE,
              segments |-> [k \in 1..Len(rows) |->
                              [id |-> rows[k].id, path |-> paths[k].path,
                               strahler_order |-> rows[k].strahler_order,
                               width_meters |-> rows[k].width_meters]]]

(***************************************************************************)
(* The chunk table driven on its own: save_chunk and load_chunk of chunks  *)
(* whose arrays hold any bit pattern.                                      *)
(***************************************************************************)
\* the keys the chunks are saved under
StoreKeys == {<<0, 0, 0>>, <<0, 0, 1>>, <<-1, 0, 0>>}

\* the height arrays: 0.2 and the NaN; -0.0 alone
StoreHeights == {<<1045220557, -1>>, <<(-2147483647) - 1>>}

\* flow and biome arrays, both absent or both present
StoreExtras ==
    {[flow_accumulation |-> NoFlow, biome_ids |-> NoFlow],
     [flow_accumulation |-> [some |-> TRUE, data |-> <<-1, 1045220557>>],
      biome_ids |-> [some |-> TRUE, data |-> <<3, 255>>]]}

StoreChunks ==
    {[coord |-> <<key[1], key[2]>>, heights |-> hs, lod |-> key[3],
      flow_accumulation |-> extra.flow_accumulation, biome_ids |-> extra.biome_ids] :
       key \in StoreKeys, hs \in StoreHeights, extra \in StoreExtras}

InitStore ==
    /\ SessionIdle
    /\ HydroIdle

\* db.save_chunk(chunk); last.snap is the rows the key had before
SaveChunk(chunk) ==
    /\ terrain_db' = save_chunk(terrain_db, chunk)
    /\ last' = [NoOp EXCEPT !.op = "save_chunk", !.request = chunk,
                            !.snap = chunk_rows(terrain_db, chunk.coord[1], chunk.coord[2],
                                                chunk.lod)]
    /\ UNCHANGED <<terrainVars, undoVars, hist, chunks0, hydroVars, callVars, erosionVars>>

\* db.load_chunk(chunk_x, chunk_z, lod)
LoadChunk(chunk_x, chunk_z, lod) ==
    /\ \E loaded \in {load_chunk(terrain_db, chunk_x, chunk_z, lod)} :
          last' = [NoOp EXCEPT !.op = "load_chunk", !.ok = loaded.ok,
                               !.request = <<chunk_x, chunk_z, lod>>,
                               !.returned = loaded.chunk]
    /\ UNCHANGED <<terrainVars, undoVars, hist, chunks0, hydroVars, callVars, erosionVars,
                   terrain_db>>

NextStore ==
    \/ \E chunk \in StoreChunks : SaveChunk(chunk)
    \/ \E key \in StoreKeys : LoadChunk(key[1], key[2], key[3])

SpecStore == InitStore /\ [][NextStore]_vars

\* C25: a chunk that was saved is loaded back under its key with the same heights, bit
\* for bit, and the same flow and biome arrays, present or absent, and the table has one
\* row for the key, also when the key had a row before.
C25_ChunkRoundTrip ==
    [][last'.op = "save_chunk" =>
         LET chunk == last'.request
             loaded == load_chunk(terrain_db', chunk.coord[1], chunk.coord[2], chunk.lod)
         IN  /\ loaded.ok
             /\ loaded.chunk.heights = chunk.heights
             /\ loaded.chunk.flow_accumulation = chunk.flow_accumulation
             /\ loaded.chunk.biome_ids = chunk.biome_ids
             /\ Len(chunk_rows(terrain_db', chunk.coord[1], chunk.coord[2], chunk.lod)) = 1]_vars

\* a chunk with a NaN height, flow and biome data was saved over a row of other data
C25_Witness ==
    /\ last.op = "save_chunk"
    /\ last.snap # <<>>
    /\ -1 \in {last.request.heights[i] : i \in 1..Len(last.request.heights)}
    /\ last.request.flow_accumulation.some
    /\ last.request.biome_ids.some
    /\ last.snap[1].data # zstd_encode_all(FlatBytes(last.request.heights)).data
    /\ load_chunk(terrain_db, last.request.coord[1], last.request.coord[2],
                  last.request.lod).chunk = last.request

(***************************************************************************)
(* The commands save_terrain and load_terrain, next to generate_terrain.   *)
(* save_terrain holds the session lock throughout.  load_terrain reads the *)
(* database first and takes the lock for the assignments only, so it is    *)
(* two steps: what it read is in the locals of the invocation.             *)
(***************************************************************************)
\* the worlds generated: the sample world, whose slope carries a river, and a world of
\* one cell, which has none
StoreRequests ==
    [width : {WorldWidth}, height : {WorldHeight}, seed : Seeds, use_erosion : {TRUE},
     erosion_iterations : {1}]
    \cup [width : {1}, height : {1}, seed : {1}, use_erosion : {TRUE},
          erosion_iterations : {1}]

InitTerrainDb ==
    /\ SessionIdle
    /\ HydroIdle

\* the loop over terrain.chunks.values(), the chunks at coords still to be saved
RECURSIVE SaveChunks(_, _, _)
SaveChunks(db, chs, coords) ==
    IF coords = {} THEN db
    ELSE LET c == CHOOSE d \in coords : TRUE
         IN  SaveChunks(save_chunk(db, chs[c]), chs, coords \ {c})

\* the loop over terrain.river_network.segments
RECURSIVE SaveRivers(_, _)
SaveRivers(db, segments) ==
    IF segments = <<>> THEN db
    ELSE SaveRivers(save_river_segment(db, Head(segments)), Tail(segments))

\* the command save_terrain; last.snap is the network it saved
SaveTerrain ==
    /\ terrain_db' = SaveRivers(SaveChunks(save_config(terrain_db, config), chunks,
                                           DOMAIN chunks),
                                river_network)
    /\ last' = [NoOp EXCEPT !.op = "save_terrain", !.snap = river_network, !.n = last.n,
                            !.returned = <<Cardinality(DOMAIN chunks), Len(river_network)>>]
    /\ UNCHANGED <<terrainVars, undoVars, hist, chunks0, hydroVars, callVars, erosionVars>>

\* load_terrain up to its lock: the config, the chunks of lod 0 inside the chunk counts
\* of that config, and the river segments
LoadLocals(db) ==
    LET cfg == load_config(db)
        rows == SelectSeq(db.terrain_chunks,
                          LAMBDA r : /\ chunk_exists(db, r.chunk_x, r.chunk_z, 0)
                                     /\ r.lod = 0
                                     /\ 0 <= r.chunk_x /\ r.chunk_x < chunk_count_x(cfg.config)
                                     /\ 0 <= r.chunk_z /\ r.chunk_z < chunk_count_z(cfg.config))
        loaded == [k \in 1..Len(rows) |-> load_chunk(db, rows[k].chunk_x, rows[k].chunk_z, 0)]
        river_segments == load_river_segments(db)
    IN  IF ~cfg.ok \/ (\E k \in 1..Len(rows) : ~loaded[k].ok) \/ ~river_segments.ok
        THEN [NoCall EXCEPT !.pc = "failed"]
        ELSE [pc |-> "loaded", request |-> <<>>, config |-> cfg.config,
              chunks |-> [k \in 1..Len(rows) |-> loaded[k].chunk],
              rivers |-> river_segments.segments]

LoadBegin(p) ==
    /\ calls[p].pc \in {"idle", "done"}
    /\ \E locals \in {LoadLocals(terrain_db)} :
          IF locals.pc = "failed"
          THEN /\ last' = [NoOp EXCEPT !.op = "load_terrain", !.ok = FALSE, !.n = last.n]
               /\ UNCHANGED calls
          ELSE /\ last' = [NoOp EXCEPT !.op = "load_terrain", !.n = last.n]
               /\ calls' = [calls EXCEPT ![p] = locals]
    /\ UNCHANGED <<terrainVars, origin, undoVars, hist, chunks0, hydroVars, erosionVars,
                   terrain_db>>

\* load_terrain from its lock on
LoadCommit(p) ==
    /\ calls[p].pc = "loaded"
    /\ config' = calls[p].config
    /\ chunks' = [c \in {calls[p].chunks[k].coord : k \in 1..Len(calls[p].chunks)} |->
                    calls[p].chunks[Only({k \in 1..Len(calls[p].chunks) :
                                             calls[p].chunks[k].coord = c})]]
    /\ river_network' = calls[p].rivers
    /\ dirty_chunks' = {}
    /\ calls' = [calls EXCEPT ![p].pc = "done"]
    /\ origin' = [config |-> p, chunks |-> p, rivers |-> p]
    /\ last' = [NoOp EXCEPT !.op = "load_terrain", !.n = last.n,
                            !.returned = <<Len(calls[p].chunks), Len(calls[p].rivers)>>]
    /\ UNCHANGED <<water_sources, undoVars, hist, chunks0, hydroVars, erosionVars,
                   terrain_db>>

NextTerrainDb ==
    \/ \E p \in Clients, request \in StoreRequests :
          \E starts \in {s \in StartsOf(IF request.use_erosion
                                        THEN request.erosion_iterations
                                             * droplets_per_iteration
                                        ELSE 0) :
                           \A k \in DOMAIN s : s[k][1] < request.width
                                               /\ s[k][2] < request.height} :
             GenerateBegin(p, request, starts)
    \/ \E p \in Clients : GenerateCommit(p)
    \/ SaveTerrain
    \/ \E p \in Clients : LoadBegin(p)
    \/ \E p \in Clients : LoadCommit(p)

SpecTerrainDb == InitTerrainDb /\ [][NextTerrainDb]_vars

\* C26: after save_terrain the table river_segments has one row for each segment of the
\* network saved and no other row, and a load_terrain that reads the database next gets
\* the segments of that network.
C26_OneRowPerSegment ==
    [][/\ last'.op = "save_terrain" =>
            /\ Len(terrain_db'.river_segments) = Len(river_network')
            /\ \A k \in 1..Len(river_network') :
                  \E j \in 1..Len(terrain_db'.river_segments) :
                     terrain_db'.river_segments[j].id = river_network'[k].id
       /\ \A p \in Clients :
             (last.op = "save_terrain" /\ calls[p].pc # "loaded" /\ calls'[p].pc = "loaded")
                => calls'[p].rivers = last.snap]_vars

(***************************************************************************)
(* The paths of a river network                                            *)
(***************************************************************************)
\* the cells of a path, as a set
CellsOf(path) == {path[i] : i \in 1..Len(path)}

\* C27: the segments extract_rivers returns share no cell, no segment has a cell twice,
\* every segment has more than 2 points and at most as many as trace_river_path has
\* steps, and each point after the first is the neighbour the flow direction of the
\* point before it names.
C27_PathsNeverOverlap ==
    phase = "extracted" =>
        /\ \A k \in 1..Len(river_network) :
              LET path == river_network[k].path IN
              /\ Cardinality(CellsOf(path)) = Len(path)
              /\ Len(path) > 2 /\ Len(path) <= max_path_steps
              /\ \A i \in 1..(Len(path) - 1) :
                    LET dir == flow_direction[path[i][2] * width + path[i][1] + 1]
                    IN  /\ dir < 8
                        /\ path[i + 1] = <<path[i][1] + dx[dir + 1], path[i][2] + dz[dir + 1]>>
        /\ \A k, m \in 1..Len(river_network) :
              k # m => CellsOf(river_network[k].path) \cap CellsOf(river_network[m].path) = {}

\* two segments: one that used every step of the trace, one that stopped where its
\* direction points at a cell of the other
C27_Witness ==
    /\ phase = "extracted"
    /\ Len(river_network) = 2
    /\ Len(river_network[1].path) = max_path_steps
    /\ LET path == river_network[2].path
           end == path[Len(path)]
           dir == flow_direction[end[2] * width + end[1] + 1]
       IN  /\ dir < 8
           /\ <<end[1] + dx[dir + 1], end[2] + dz[dir + 1]>> \in CellsOf(river_network[1].path)

(***************************************************************************)
(* Following the flow directions                                           *)
(***************************************************************************)
RECURSIVE Follow(_, _, _, _, _)
\* the walk from cell idx along dirs: the steps it takes before it meets a cell without
\* a direction, and whether it left the grid or met a cell of seen again
Follow(idx, seen, dirs, w, h) ==
    LET dir == dirs[idx + 1]
        nx == (idx % w) + dx[dir + 1]
        nz == (idx \div w) + dz[dir + 1]
    IN  IF dir >= 8 THEN [steps |-> Cardinality(seen), stray |-> FALSE]
        ELSE IF ~InGrid(nx, nz, w, h) \/ (nz * w + nx) \in seen \cup {idx}
        THEN [steps |-> Cardinality(seen) + 1, stray |-> TRUE]
        ELSE Follow(nz * w + nx, seen \cup {idx}, dirs, w, h)

\* C28: a direction of calculate_flow_direction is 'none' or names a neighbour inside
\* the grid that is strictly lower, and the walk along the directions from any cell
\* meets no cell twice and ends at a cell without direction in fewer steps than the grid
\* has cells.
C28_FlowGoesDown ==
    phase \in {"directed", "done"} =>
        \A idx \in 0..(width * height - 1) :
           LET dir == flow_direction[idx + 1]
               nx == (idx % width) + dx[dir + 1]
               nz == (idx \div width) + dz[dir + 1]
               walk == Follow(idx, {}, flow_direction, width, height)
           IN  /\ dir = NoDir
                  \/ /\ dir < 8
                     /\ InGrid(nx, nz, width, height)
                     /\ HeightAt(heights, width, nx, nz) < heights[idx + 1]
               /\ ~walk.stray
               /\ walk.steps < width * height

\* a buffer that was not filled, with a pit away from the border, a flat pair of cells
\* and a walk of MaxLevel steps
C28_Witness ==
    /\ phase = "directed"
    /\ heights = heights_in
    /\ \E idx \in 0..(width * height - 1) :
          /\ 0 < idx % width /\ idx % width < width - 1
          /\ 0 < idx \div width /\ idx \div width < height - 1
          /\ flow_direction[idx + 1] = NoDir
          /\ heights[idx + 1] < heights[idx + 2]
    /\ \E idx \in 0..(width * height - 2) :
          (idx + 1) % width # 0 /\ heights[idx + 1] = heights[idx + 2]
    /\ \E idx \in 0..(width * height - 1) :
          Follow(idx, {}, flow_direction, width, height).steps >= MaxLevel - 1

(***************************************************************************)
(* The undo stack next to a generate_terrain that replaces the chunk map   *)
(* by the map of a smaller world: entries of chunks that are gone.         *)
(***************************************************************************)
\* the world of one chunk
SmallWorld == [width |-> 1, height |-> 1, seed |-> 1, use_erosion |-> FALSE,
               erosion_iterations |-> 1]

NextUndoMaps ==
    \/ \E c \in HarnessCoords, v \in EditPatterns : EditRecord(c, 1, v)
    \/ Undo
    \/ GenerateBegin("a", SmallWorld, <<>>)
    \/ GenerateCommit("a")

SpecUndoMaps == InitUndo /\ [][NextUndoMaps]_vars

\* C29: undo on an empty stack returns false and leaves the stack and the terrain as
\* they are; on a stack with entries it returns true and takes off the newest entry and
\* no other, and when the chunk of that entry is not in the chunk map or its delta does
\* not decompress, the chunk map and the dirty set stay as they are.
C29_UndoOfNothing ==
    [][last'.op = "undo" =>
         IF entries = <<>>
         THEN ~last'.ok /\ UNCHANGED <<entries, current_group, terrainVars>>
         ELSE /\ last'.ok
              /\ entries' = SubSeq(entries, 1, Len(entries) - 1)
              /\ (entries[Len(entries)].chunk_coord \notin DOMAIN chunks
                  \/ ~zstd_decode_all(entries[Len(entries)].delta).ok)
                    => UNCHANGED <<chunks, dirty_chunks>>]_vars

\* an undo took off an entry of a chunk that the chunk map no longer has, with an
\* entry left on the stack
C29_Witness ==
    /\ last.op = "undo" /\ last.ok
    /\ last.coord \notin DOMAIN chunks
    /\ calls["a"].pc = "done"
    /\ entries # <<>>
    /\ dirty_chunks = {}

(***************************************************************************)
(* What fill_depressions does to the heights                               *)
(***************************************************************************)
\* cell idx is on the border of the grid
OnBorder(idx, w, h) ==
    idx % w = 0 \/ idx % w = w - 1 \/ idx \div w = 0 \/ idx \div w = h - 1

\* C30: through fill_depressions no cell is lower than it was given, a border cell has
\* the height it was given, and a cell whose height a step changes is an interior cell
\* set to the height of a neighbour that was resolved before, plus epsilon.
C30_FillOnlyRaises ==
    [][\A idx \in 0..(width * height - 1) :
          /\ heights'[idx + 1] >= heights_in[idx + 1]
          /\ OnBorder(idx, width, height) => heights'[idx + 1] = heights_in[idx + 1]
          /\ heights'[idx + 1] # heights[idx + 1] =>
                /\ ~OnBorder(idx, width, height)
                /\ idx \notin closed
                /\ \E n \in closed :
                      /\ <<idx % width, idx \div width>>
                            \in {get_neighbors_8(n % width, n \div width, width, height)[k] :
                                   k \in 1..Len(get_neighbors_8(n % width, n \div width,
                                                                width, height))}
                      /\ heights'[idx + 1] = heights[n + 1] + epsilon]_vars

\* fill_depressions has ended on a grid with two interior cells: one was raised, the
\* other, which was higher than a border cell next to it, was left alone
C30_Witness ==
    /\ phase = "fill" /\ open = <<>>
    /\ \E a, b \in {idx \in 0..(width * height - 1) : ~OnBorder(idx, width, height)} :
          /\ heights[a + 1] > heights_in[a + 1]
          /\ heights[b + 1] = heights_in[b + 1]
          /\ heights[b + 1] > heights[1]

====
